---- MODULE Spec2Model ----
(***************************************************************************)
(* The authentication / session core of KotobaMichi-Backend                *)
(* (src/src/auth/auth.service.ts, src/src/db/schema.ts).                   *)
(*                                                                         *)
(* The relational store is four tables kept in insertion order; a row's id *)
(* is its position.  The handlers of AuthService are operators from a      *)
(* database value, the request's inputs and the wall clock to the new      *)
(* database value and the response.  Time is counted in units of twelve    *)
(* hours, so that the hard-coded trailing day of the rate limiter is two   *)
(* units; the configurable durations are set to whole units.               *)
(***************************************************************************)
EXTENDS Integers, Sequences, FiniteSets, TLC

\* users, evt, prt, rt: the tables users, email_verification_tokens,
\* password_reset_tokens and refresh_tokens.  outbox: the mails the Notification
\* Gateway has delivered.  now: the wall clock.  reqs: the requests that are
\* being handled one statement at a time.  accepted: the secrets verifyEmail or
\* resetPassword has taken so far (a record of the run, read by no handler).
\* emailService: the configuration and the transporter field of EmailService.
VARIABLES users, evt, prt, rt, outbox, now, reqs, accepted, emailService

vars == <<users, evt, prt, rt, outbox, now, reqs, accepted, emailService>>

\* ---------------------------------------------------------------- bounds
\* The clock stops at MaxTime; the three token tables hold MaxRows rows together.
MaxTime == 2
MaxRows == 4

\* The address that registers, and one that never does.
Emails == {"a@x.com"}
RequestEmails == Emails \cup {"nobody@x.com"}
Passwords == {"Secret123!", "Other456!"}

\* ----------------------------------------------------------- configuration
\* A nullable column that holds no value.
Null == -1

\* 24 * 60 * 60 * 1000 ms, in units of twelve hours.
DayMs == 2

\* EMAIL_VERIFICATION_COOLDOWN_SECONDS, set to twelve hours.
verificationCooldownSeconds == 1

\* EMAIL_VERIFICATION_DAILY_LIMIT
verificationDailyLimit == 3

\* PASSWORD_RESET_COOLDOWN_SECONDS, set to twelve hours.
resetCooldownSeconds == 1

\* PASSWORD_RESET_DAILY_LIMIT
resetDailyLimit == 2

\* A duration string "<value><unit>"; the unit "d" stands for the units the
\* regular expression of parseTTLToMs knows, "w" for one only the JWT library knows.
TTL(value, unit) == [value |-> value, unit |-> unit]

\* EMAIL_VERIFICATION_EXPIRES_IN, set to twelve hours
verificationTokenTTL == TTL(1, "d")

\* PASSWORD_RESET_EXPIRES_IN, set to twelve hours
passwordResetTTL == TTL(1, "d")

\* REFRESH_TOKEN_EXPIRES_IN, set to twelve hours
refreshTokenTTL == TTL(1, "d")

\* ACCESS_TOKEN_EXPIRES_IN, set to twelve hours
accessTokenTTL == TTL(1, "d")

parseTTLToMs(ttl) == IF ttl.unit = "d" THEN ttl.value ELSE 0

\* jsonwebtoken's expiresIn: every unit of the ms library is understood.
jwtExpiresIn(ttl) == ttl.value

\* ------------------------------------------------------------- utilities
\* SHA-256 as an injective tagging of its input.
hashToken(token) == <<"sha256", token>>

\* bcrypt.hash / bcrypt.compare
bcryptHash(password) == <<"bcrypt", password>>
bcryptCompare(password, hash) == hash = bcryptHash(password)

addMs(date, ms) == date + ms

Max(S) == CHOOSE x \in S : \A y \in S : y <= x
Min(S) == CHOOSE x \in S : \A y \in S : x <= y

\* uuidv7() + '.' + uuidv7(): the secret of the n-th token of a kind.
rawSecret(kind, n) == <<kind, n>>

\* The database value the handlers work on.
DB == [users |-> users, evt |-> evt, prt |-> prt, rt |-> rt, outbox |-> outbox]

\* ------------------------------------------------------------- queries
getUserByEmail(d, email) ==
    LET m == {i \in 1..Len(d.users) : d.users[i].email = email}
    IN IF m = {} THEN 0 ELSE Min(m)

getUserById(d, id) == IF id \in 1..Len(d.users) THEN id ELSE 0

\* The newest createdAt among the user's rows of a token table, Null without rows.
latestCreatedAt(table, userId) ==
    LET c == {table[i].createdAt : i \in {j \in 1..Len(table) : table[j].userId = userId}}
    IN IF c = {} THEN Null ELSE Max(c)

getTokenByHash(table, hash) ==
    LET m == {i \in 1..Len(table) : table[i].tokenHash = hash}
    IN IF m = {} THEN 0 ELSE Min(m)

getRefreshTokenByJti(d, jti) ==
    LET m == {i \in 1..Len(d.rt) : d.rt[i].jti = jti}
    IN IF m = {} THEN 0 ELSE Min(m)

\* count(*) of the user's rows created at or after since
dailyCount(table, userId, since) ==
    Cardinality({i \in 1..Len(table) :
                   table[i].userId = userId /\ table[i].createdAt >= since})

\* ---------------------------------------------------------- rate limits
\* rateLimit without the cooldown: only the daily cap is enforced.
rateLimit_NoCooldown(table, userId, t, cooldownMs, limit) ==
    IF dailyCount(table, userId, t - DayMs) >= limit THEN "TooManyRequests" ELSE "pass"

rateLimit(table, userId, t, cooldownMs, limit) ==
    LET lastAt == latestCreatedAt(table, userId)
    IN IF lastAt # Null /\ t - lastAt < cooldownMs THEN "TooManyRequests"
       ELSE IF dailyCount(table, userId, t - DayMs) >= limit THEN "TooManyRequests"
       ELSE "pass"

\* enforceVerificationRateLimit that leaves the user's first token, the one
\* register issued, out of the cooldown and of the count.
enforceVerificationRateLimit_ResendsOnly(d, userId, t) ==
    LET rows == {i \in 1..Len(d.evt) : d.evt[i].userId = userId}
        resends == IF rows = {} THEN d.evt
                   ELSE SelectSeq(d.evt, LAMBDA row : row.id # Min(rows))
    IN rateLimit(resends, userId, t, verificationCooldownSeconds, verificationDailyLimit)

enforceVerificationRateLimit(d, userId, t) ==
    rateLimit(d.evt, userId, t, verificationCooldownSeconds, verificationDailyLimit)

enforcePasswordResetRateLimit(d, userId, t) ==
    rateLimit(d.prt, userId, t, resetCooldownSeconds, resetDailyLimit)

\* ------------------------------------------------------- session issuer
signAccessToken(d, userId, t) ==
    [type |-> "access", sub |-> userId, email |-> d.users[userId].email,
     role |-> d.users[userId].role, jti |-> Null,
     iat |-> t, exp |-> t + jwtExpiresIn(accessTokenTTL), sig |-> "valid"]

\* The jti is fresh: the position the new row will take.
signRefreshToken(d, userId, t) ==
    [type |-> "refresh", sub |-> userId, email |-> "", role |-> "",
     jti |-> Len(d.rt) + 1,
     iat |-> t, exp |-> t + jwtExpiresIn(refreshTokenTTL), sig |-> "valid"]

\* jwtService.verifyAsync: the signature and the exp claim
verifyAsync(token, t) == token.sig = "valid" /\ t < token.exp

\* ------------------------------------------------------ table updates
\* UPDATE ... SET usedAt = t WHERE userId = .. AND usedAt IS NULL
invalidateUnused(table, userId, t) ==
    [i \in 1..Len(table) |->
        IF table[i].userId = userId /\ table[i].usedAt = Null
        THEN [table[i] EXCEPT !.usedAt = t] ELSE table[i]]

\* markUsed that writes nothing.
markUsed_Noop(table, hash, t) == table

\* UPDATE ... SET usedAt = t WHERE tokenHash = ..
markUsed(table, hash, t) ==
    [i \in 1..Len(table) |->
        IF table[i].tokenHash = hash THEN [table[i] EXCEPT !.usedAt = t] ELSE table[i]]

newToken(table, kind, userId, ttl, t) ==
    [id |-> Len(table) + 1, userId |-> userId,
     tokenHash |-> hashToken(rawSecret(kind, Len(table) + 1)),
     expiresAt |-> addMs(t, parseTTLToMs(ttl)), usedAt |-> Null, createdAt |-> t]

\* revokeAllUserRefreshTokens that deletes the user's rows.
revokeAllUserRefreshTokens_Delete(d, userId, t) ==
    [d EXCEPT !.rt = SelectSeq(d.rt, LAMBDA row : row.userId # userId)]

revokeAllUserRefreshTokens(d, userId, t) ==
    [d EXCEPT !.rt =
        [i \in 1..Len(d.rt) |->
            IF d.rt[i].userId = userId /\ d.rt[i].revokedAt = Null
            THEN [d.rt[i] EXCEPT !.revokedAt = t] ELSE d.rt[i]]]

\* revokeRefreshTokenFamily that writes nothing.
revokeRefreshTokenFamily_Noop(d, jti, t) == d

revokeRefreshTokenFamily(d, jti, t) ==
    LET existing == getRefreshTokenByJti(d, jti)
    IN IF existing = 0 THEN d ELSE revokeAllUserRefreshTokens(d, d.rt[existing].userId, t)

newRefreshRow(d, userId, token, t) ==
    [id |-> Len(d.rt) + 1, jti |-> token.jti, userId |-> userId,
     tokenHash |-> hashToken(token),
     expiresAt |-> addMs(t, parseTTLToMs(refreshTokenTTL)),
     revokedAt |-> Null, replacedById |-> Null, createdAt |-> t]

\* ------------------------------------------------------------ responses
\* What a handler hands back: the new database value, the HTTP outcome, the
\* response body and what happened to the two auth cookies.
Reply(d, status, body, cookies) ==
    [db |-> d, status |-> status, body |-> body, cookies |-> cookies]

NoBody == [kind |-> "none"]

publicUser(d, userId) ==
    [id |-> userId, email |-> d.users[userId].email, role |-> d.users[userId].role]

tokenBody(d, userId, access, refresh) ==
    [kind |-> "tokens", access_token |-> access, refresh_token |-> refresh,
     user |-> publicUser(d, userId)]

\* A request that carries no cookie.
NoToken ==
    [type |-> "none", sub |-> Null, email |-> "", role |-> "", jti |-> Null,
     iat |-> Null, exp |-> Null, sig |-> "none"]

newUser(d, email, password, role) ==
    [id |-> Len(d.users) + 1, email |-> email, password |-> bcryptHash(password),
     role |-> role, isEmailVerified |-> FALSE]

\* ------------------------------------------------------------- handlers
\* Invalidate the user's unused tokens, insert a new one, send the link.  The
\* boolean is whether the Notification Gateway delivers; when it does not the
\* two writes stay and the error is thrown on.
issueAndSendEmailVerification(d, userId, email, delivers, t) ==
    LET d1 == [d EXCEPT !.evt = invalidateUnused(d.evt, userId, t)]
        row == newToken(d1.evt, "evt", userId, verificationTokenTTL, t)
        d2 == [d1 EXCEPT !.evt = Append(d1.evt, row)]
        mail == [to |-> email, kind |-> "evt", secret |-> rawSecret("evt", row.id)]
    IN IF delivers
       THEN [db |-> [d2 EXCEPT !.outbox = d2.outbox \cup {mail}], thrown |-> FALSE]
       ELSE [db |-> d2, thrown |-> TRUE]

\* register that issues a verification token before it reports the conflict.
register_IssueThenConflict(d, email, password, delivers, t) ==
    IF getUserByEmail(d, email) # 0
    THEN Reply(issueAndSendEmailVerification(d, getUserByEmail(d, email), email,
                                             delivers, t).db,
               "Conflict", NoBody, "kept")
    ELSE LET user == newUser(d, email, password, "USER")
             d1 == [d EXCEPT !.users = Append(d.users, user)]
             sent == issueAndSendEmailVerification(d1, user.id, user.email, delivers, t)
         IN IF sent.thrown
            THEN Reply(sent.db, "Error", NoBody, "kept")
            ELSE Reply(sent.db, "ok", [kind |-> "message"], "kept")

\* register that takes the user row and the token back when the mail fails.
register_RollbackUndelivered(d, email, password, delivers, t) ==
    IF getUserByEmail(d, email) # 0
    THEN Reply(d, "Conflict", NoBody, "kept")
    ELSE LET user == newUser(d, email, password, "USER")
             d1 == [d EXCEPT !.users = Append(d.users, user)]
             sent == issueAndSendEmailVerification(d1, user.id, user.email, delivers, t)
         IN IF sent.thrown
            THEN Reply(d, "Error", NoBody, "kept")
            ELSE Reply(sent.db, "ok", [kind |-> "message"], "kept")

\* register that logs the new user in: it persists a refresh token for it.
register_AutoLogin(d, email, password, delivers, t) ==
    IF getUserByEmail(d, email) # 0
    THEN Reply(d, "Conflict", NoBody, "kept")
    ELSE LET user == newUser(d, email, password, "USER")
             d1 == [d EXCEPT !.users = Append(d.users, user)]
             sent == issueAndSendEmailVerification(d1, user.id, user.email, delivers, t)
             refresh == signRefreshToken(sent.db, user.id, t)
             d2 == [sent.db EXCEPT
                       !.rt = Append(sent.db.rt, newRefreshRow(sent.db, user.id, refresh, t))]
         IN IF sent.thrown
            THEN Reply(sent.db, "Error", NoBody, "kept")
            ELSE Reply(d2, "ok", [kind |-> "message"], "kept")

register(d, email, password, delivers, t) ==
    IF getUserByEmail(d, email) # 0
    THEN Reply(d, "Conflict", NoBody, "kept")
    ELSE LET user == newUser(d, email, password, "USER")
             d1 == [d EXCEPT !.users = Append(d.users, user)]
             sent == issueAndSendEmailVerification(d1, user.id, user.email, delivers, t)
         IN IF sent.thrown
            THEN Reply(sent.db, "Error", NoBody, "kept")
            ELSE Reply(sent.db, "ok", [kind |-> "message"], "kept")

registerAdmin(d, email, password, t) ==
    IF getUserByEmail(d, email) # 0
    THEN Reply(d, "Conflict", NoBody, "kept")
    ELSE LET user == newUser(d, email, password, "ADMIN")
             d1 == [d EXCEPT !.users = Append(d.users, user)]
             access == signAccessToken(d1, user.id, t)
             refresh == signRefreshToken(d1, user.id, t)
             d2 == [d1 EXCEPT !.rt = Append(d1.rt, newRefreshRow(d1, user.id, refresh, t))]
         IN Reply(d2, "ok", tokenBody(d2, user.id, access, refresh), "kept")

\* login without the check of isEmailVerified.
login_Ungated(d, email, password, t) ==
    LET userId == getUserByEmail(d, email)
    IN IF userId = 0 THEN Reply(d, "Unauthorized", NoBody, "kept")
       ELSE IF ~bcryptCompare(password, d.users[userId].password)
       THEN Reply(d, "Unauthorized", NoBody, "kept")
       ELSE LET access == signAccessToken(d, userId, t)
                refresh == signRefreshToken(d, userId, t)
                d1 == [d EXCEPT !.rt = Append(d.rt, newRefreshRow(d, userId, refresh, t))]
            IN Reply(d1, "ok", tokenBody(d1, userId, access, refresh), "set")

login(d, email, password, t) ==
    LET userId == getUserByEmail(d, email)
    IN IF userId = 0 THEN Reply(d, "Unauthorized", NoBody, "kept")
       ELSE IF ~bcryptCompare(password, d.users[userId].password)
       THEN Reply(d, "Unauthorized", NoBody, "kept")
       ELSE IF ~d.users[userId].isEmailVerified
       THEN Reply(d, "Unauthorized", NoBody, "kept")
       ELSE LET access == signAccessToken(d, userId, t)
                refresh == signRefreshToken(d, userId, t)
                d1 == [d EXCEPT !.rt = Append(d.rt, newRefreshRow(d, userId, refresh, t))]
            IN Reply(d1, "ok", tokenBody(d1, userId, access, refresh), "set")

\* tokenAccepted without the comparison of expiresAt with the clock.
tokenAccepted_NoExpiry(table, idx, t) ==
    idx # 0 /\ table[idx].usedAt = Null

\* The row verifyEmail / resetPassword read by hash, and whether they take it.
tokenAccepted(table, idx, t) ==
    idx # 0 /\ table[idx].usedAt = Null /\ ~(table[idx].expiresAt < t)

\* The read of verifyEmail: the row of the secret's hash, no or one row.
verifyRead(d, token) ==
    LET rec == getTokenByHash(d.evt, hashToken(token))
    IN IF rec = 0 THEN <<>> ELSE <<d.evt[rec]>>

\* What verifyEmail does with the row it has read.
verifyDecide(d, token, read, t) ==
    IF ~tokenAccepted(read, Len(read), t)
    THEN Reply(d, "Unauthorized", NoBody, "kept")
    ELSE Reply([d EXCEPT !.users[read[1].userId].isEmailVerified = TRUE,
                         !.evt = markUsed(d.evt, hashToken(token), t)],
               "ok", [kind |-> "success"], "kept")

verifyEmail(d, token, t) == verifyDecide(d, token, verifyRead(d, token), t)

\* resendVerification without the early return for a verified user.
resendVerification_SkipVerified(d, email, delivers, t) ==
    LET userId == getUserByEmail(d, email)
    IN IF userId = 0 THEN Reply(d, "ok", [kind |-> "success"], "kept")
       ELSE IF enforceVerificationRateLimit(d, userId, t) # "pass"
       THEN Reply(d, "TooManyRequests", NoBody, "kept")
       ELSE LET sent == issueAndSendEmailVerification(d, userId, email, delivers, t)
            IN IF sent.thrown
               THEN Reply(sent.db, "Error", NoBody, "kept")
               ELSE Reply(sent.db, "ok", [kind |-> "success"], "kept")

resendVerification(d, email, delivers, t) ==
    LET userId == getUserByEmail(d, email)
    IN IF userId = 0 THEN Reply(d, "ok", [kind |-> "success"], "kept")
       ELSE IF d.users[userId].isEmailVerified
       THEN Reply(d, "ok", [kind |-> "success"], "kept")
       ELSE IF enforceVerificationRateLimit(d, userId, t) # "pass"
       THEN Reply(d, "TooManyRequests", NoBody, "kept")
       ELSE LET sent == issueAndSendEmailVerification(d, userId, email, delivers, t)
            IN IF sent.thrown
               THEN Reply(sent.db, "Error", NoBody, "kept")
               ELSE Reply(sent.db, "ok", [kind |-> "success"], "kept")

forgotPassword(d, email, delivers, t) ==
    LET userId == getUserByEmail(d, email)
    IN IF userId = 0 THEN Reply(d, "ok", [kind |-> "success"], "kept")
       ELSE IF enforcePasswordResetRateLimit(d, userId, t) # "pass"
       THEN Reply(d, "TooManyRequests", NoBody, "kept")
       ELSE LET d1 == [d EXCEPT !.prt = invalidateUnused(d.prt, userId, t)]
                row == newToken(d1.prt, "prt", userId, passwordResetTTL, t)
                d2 == [d1 EXCEPT !.prt = Append(d1.prt, row)]
                mail == [to |-> email, kind |-> "prt",
                         secret |-> rawSecret("prt", row.id)]
            IN IF delivers
               THEN Reply([d2 EXCEPT !.outbox = d2.outbox \cup {mail}],
                          "ok", [kind |-> "success"], "kept")
               ELSE Reply(d2, "Error", NoBody, "kept")

\* The read of resetPassword: the row of the secret's hash, no or one row.
resetRead(d, token) ==
    LET rec == getTokenByHash(d.prt, hashToken(token))
    IN IF rec = 0 THEN <<>> ELSE <<d.prt[rec]>>

\* resetPassword that stores the hash and marks the token used without
\* revoking the refresh tokens.
resetDecide_KeepSessions(d, token, newPassword, read, t) ==
    IF ~tokenAccepted(read, Len(read), t)
    THEN Reply(d, "Unauthorized", NoBody, "kept")
    ELSE Reply([d EXCEPT !.users[read[1].userId].password = bcryptHash(newPassword),
                         !.prt = markUsed(d.prt, hashToken(token), t)],
               "ok", [kind |-> "success"], "kept")

\* What resetPassword does with the row it has read.
resetDecide(d, token, newPassword, read, t) ==
    IF ~tokenAccepted(read, Len(read), t)
    THEN Reply(d, "Unauthorized", NoBody, "kept")
    ELSE LET userId == read[1].userId
             d1 == [d EXCEPT !.users[userId].password = bcryptHash(newPassword),
                             !.prt = markUsed(d.prt, hashToken(token), t)]
         IN Reply(revokeAllUserRefreshTokens(d1, userId, t),
                  "ok", [kind |-> "success"], "kept")

resetPassword(d, token, newPassword, t) ==
    resetDecide(d, token, newPassword, resetRead(d, token), t)

\* changePassword that stores the new hash and leaves the sessions alone.
changePassword_KeepSessions(d, userId, currentPassword, newPassword, t) ==
    IF getUserById(d, userId) = 0
    THEN Reply(d, "Unauthorized", NoBody, "kept")
    ELSE IF ~bcryptCompare(currentPassword, d.users[userId].password)
    THEN Reply(d, "Unauthorized", NoBody, "kept")
    ELSE Reply([d EXCEPT !.users[userId].password = bcryptHash(newPassword)],
               "ok", [kind |-> "success"], "kept")

\* The read of changePassword: the user row of the id, no or one row.
changeRead(d, userId) ==
    IF getUserById(d, userId) = 0 THEN <<>> ELSE <<d.users[userId]>>

\* What changePassword does with the row it has read: the comparison is made
\* with the hash as read, the transaction writes the database as it is by then.
changeDecide(d, userId, currentPassword, newPassword, read, t) ==
    IF read = <<>>
    THEN Reply(d, "Unauthorized", NoBody, "kept")
    ELSE IF ~bcryptCompare(currentPassword, read[1].password)
    THEN Reply(d, "Unauthorized", NoBody, "kept")
    ELSE LET d1 == [d EXCEPT !.users[userId].password = bcryptHash(newPassword)]
         IN Reply(revokeAllUserRefreshTokens(d1, userId, t),
                  "ok", [kind |-> "success"], "kept")

changePassword(d, userId, currentPassword, newPassword, t) ==
    changeDecide(d, userId, currentPassword, newPassword, changeRead(d, userId), t)

\* The two reads of refreshFromCookies: the ledger row of the jti and the user
\* of the subject, each a sequence of no or one row.
refreshRead(d, token) ==
    LET i == getRefreshTokenByJti(d, token.jti)
        u == getUserById(d, token.sub)
    IN [rt |-> IF i = 0 THEN <<>> ELSE <<d.rt[i]>>,
        user |-> IF u = 0 THEN <<>> ELSE <<d.users[u]>>]

\* rotate that inserts the new row and leaves the old one as it is.
rotate_InsertOnly(d, jti, newRow, t) == [d EXCEPT !.rt = Append(d.rt, newRow)]

\* rotate that links the old row to the new one without revoking it.
rotate_KeepOld(d, jti, newRow, t) ==
    [d EXCEPT !.rt =
        Append([i \in 1..Len(d.rt) |->
                   IF d.rt[i].jti = jti
                   THEN [d.rt[i] EXCEPT !.replacedById = newRow.id]
                   ELSE d.rt[i]],
               newRow)]

\* INSERT the new row; UPDATE ... SET revokedAt, replacedById WHERE jti = ..
rotate(d, jti, newRow, t) ==
    [d EXCEPT !.rt =
        Append([i \in 1..Len(d.rt) |->
                   IF d.rt[i].jti = jti
                   THEN [d.rt[i] EXCEPT !.revokedAt = t, !.replacedById = newRow.id]
                   ELSE d.rt[i]],
               newRow)]

\* refreshFromCookies that rejects a token whose row is not active without
\* revoking the other rows of the user.
refreshDecide_NoCascade(d, token, read, t) ==
    IF read.user = <<>>
    THEN Reply(revokeRefreshTokenFamily(d, token.jti, t), "Unauthorized", NoBody, "cleared")
    ELSE LET user == read.user[1]
             matchHash == read.rt # <<>> /\ read.rt[1].tokenHash = hashToken(token)
             isExpired == IF read.rt # <<>> THEN read.rt[1].expiresAt < t ELSE TRUE
         IN IF read.rt = <<>> \/ read.rt[1].revokedAt # Null \/ ~matchHash \/ isExpired
            THEN Reply(d, "Unauthorized", NoBody, "cleared")
            ELSE LET newRefresh == signRefreshToken(d, user.id, t)
                     d1 == rotate(d, token.jti, newRefreshRow(d, user.id, newRefresh, t), t)
                 IN Reply(d1, "ok",
                          tokenBody(d1, user.id, signAccessToken(d1, user.id, t), newRefresh),
                          "set")

\* refreshFromCookies that does not compare the stored hash with the token's.
refreshDecide_NoHashCheck(d, token, read, t) ==
    IF read.user = <<>>
    THEN Reply(revokeRefreshTokenFamily(d, token.jti, t), "Unauthorized", NoBody, "cleared")
    ELSE LET user == read.user[1]
             isExpired == IF read.rt # <<>> THEN read.rt[1].expiresAt < t ELSE TRUE
         IN IF read.rt = <<>> \/ read.rt[1].revokedAt # Null \/ isExpired
            THEN Reply(revokeAllUserRefreshTokens(d, user.id, t),
                       "Unauthorized", NoBody, "cleared")
            ELSE LET newRefresh == signRefreshToken(d, user.id, t)
                     d1 == rotate(d, token.jti, newRefreshRow(d, user.id, newRefresh, t), t)
                 IN Reply(d1, "ok",
                          tokenBody(d1, user.id, signAccessToken(d1, user.id, t), newRefresh),
                          "set")

\* What refreshFromCookies does with the rows it has read: the checks are made
\* on the rows as read, the writes on the database as it is by then.
refreshDecide(d, token, read, t) ==
    IF read.user = <<>>
    THEN Reply(revokeRefreshTokenFamily(d, token.jti, t), "Unauthorized", NoBody, "cleared")
    ELSE LET user == read.user[1]
             matchHash == read.rt # <<>> /\ read.rt[1].tokenHash = hashToken(token)
             isExpired == IF read.rt # <<>> THEN read.rt[1].expiresAt < t ELSE TRUE
         IN IF read.rt = <<>> \/ read.rt[1].revokedAt # Null \/ ~matchHash \/ isExpired
            THEN Reply(revokeAllUserRefreshTokens(d, user.id, t),
                       "Unauthorized", NoBody, "cleared")
            ELSE LET newRefresh == signRefreshToken(d, user.id, t)
                     d1 == rotate(d, token.jti, newRefreshRow(d, user.id, newRefresh, t), t)
                 IN Reply(d1, "ok",
                          tokenBody(d1, user.id, signAccessToken(d1, user.id, t), newRefresh),
                          "set")

\* refreshVerify without the check of the type, the subject and the jti.
refreshVerify_AnyType(d, token, t) ==
    IF token.type = "none"
    THEN Reply(d, "Unauthorized", NoBody, "kept")
    ELSE IF ~verifyAsync(token, t)
    THEN Reply(IF token.jti # Null THEN revokeRefreshTokenFamily(d, token.jti, t) ELSE d,
               "Unauthorized", NoBody, "cleared")
    ELSE Reply(d, "pass", NoBody, "kept")

\* The checks of refreshFromCookies that read no table.
refreshVerify(d, token, t) ==
    IF token.type = "none"
    THEN Reply(d, "Unauthorized", NoBody, "kept")
    ELSE IF ~verifyAsync(token, t)
    THEN Reply(IF token.jti # Null THEN revokeRefreshTokenFamily(d, token.jti, t) ELSE d,
               "Unauthorized", NoBody, "cleared")
    ELSE IF token.type # "refresh" \/ token.sub = Null \/ token.jti = Null
    THEN Reply(d, "Unauthorized", NoBody, "cleared")
    ELSE Reply(d, "pass", NoBody, "kept")

refreshFromCookies(d, token, t) ==
    LET v == refreshVerify(d, token, t)
    IN IF v.status # "pass" THEN v
       ELSE refreshDecide(d, token, refreshRead(d, token), t)

\* validateFromCookies without the check of the type claim.
validateFromCookies_AnyType(d, token, t) ==
    IF token.type = "none" THEN Reply(d, "Unauthorized", NoBody, "cleared")
    ELSE IF ~verifyAsync(token, t) THEN Reply(d, "Unauthorized", NoBody, "cleared")
    ELSE IF getUserById(d, token.sub) = 0 THEN Reply(d, "Unauthorized", NoBody, "cleared")
    ELSE Reply(d, "ok", [kind |-> "valid", user |-> publicUser(d, token.sub)], "kept")

\* validateFromCookies that also asks for an unrevoked refresh token of the user.
validateFromCookies_CheckLedger(d, token, t) ==
    IF token.type = "none" THEN Reply(d, "Unauthorized", NoBody, "cleared")
    ELSE IF ~verifyAsync(token, t) THEN Reply(d, "Unauthorized", NoBody, "cleared")
    ELSE IF token.type # "access" THEN Reply(d, "Unauthorized", NoBody, "cleared")
    ELSE IF getUserById(d, token.sub) = 0 THEN Reply(d, "Unauthorized", NoBody, "cleared")
    ELSE IF \A i \in 1..Len(d.rt) : d.rt[i].userId = token.sub => d.rt[i].revokedAt # Null
    THEN Reply(d, "Unauthorized", NoBody, "cleared")
    ELSE Reply(d, "ok", [kind |-> "valid", user |-> publicUser(d, token.sub)], "kept")

validateFromCookies(d, token, t) ==
    IF token.type = "none" THEN Reply(d, "Unauthorized", NoBody, "cleared")
    ELSE IF ~verifyAsync(token, t) THEN Reply(d, "Unauthorized", NoBody, "cleared")
    ELSE IF token.type # "access" THEN Reply(d, "Unauthorized", NoBody, "cleared")
    ELSE IF getUserById(d, token.sub) = 0 THEN Reply(d, "Unauthorized", NoBody, "cleared")
    ELSE Reply(d, "ok", [kind |-> "valid", user |-> publicUser(d, token.sub)], "kept")

\* logoutFromCookies that revokes only for a token that verifies.
logoutFromCookies_OnlyVerified(d, token, t) ==
    Reply(IF token.type # "none" /\ token.sub # Null /\ verifyAsync(token, t)
          THEN revokeAllUserRefreshTokens(d, token.sub, t) ELSE d,
          "ok", [kind |-> "success"], "cleared")

logoutFromCookies(d, token, t) ==
    Reply(IF token.type # "none" /\ token.sub # Null
          THEN revokeAllUserRefreshTokens(d, token.sub, t) ELSE d,
          "ok", [kind |-> "success"], "cleared")

\* A cookie value that jwtService.decode cannot read: it yields no payload.
Garbage ==
    [type |-> "garbage", sub |-> Null, email |-> "", role |-> "", jti |-> Null,
     iat |-> Null, exp |-> Null, sig |-> "none"]

\* The refresh token the server signed when it inserted the row.
jwtOfRow(row) ==
    [type |-> "refresh", sub |-> row.userId, email |-> "", role |-> "",
     jti |-> row.jti, iat |-> row.createdAt,
     exp |-> row.createdAt + jwtExpiresIn(refreshTokenTTL), sig |-> "valid"]


\* ------------------------------------------------------- the state machine
\* What the clients can present: every secret issued so far and one of each
\* kind that was never issued; every refresh token signed so far, a copy of
\* each with a signature that does not verify, and no cookie at all.
Secrets ==
    {rawSecret("evt", n) : n \in 0..Len(evt)} \cup {rawSecret("prt", n) : n \in 0..Len(prt)}

forged(token) == [token EXCEPT !.sig = "forged"]

IssuedRefreshTokens == {jwtOfRow(rt[i]) : i \in 1..Len(rt)}

RefreshCookies ==
    IssuedRefreshTokens \cup {forged(token) : token \in IssuedRefreshTokens} \cup {NoToken}

UserIds == 1..Cardinality(Emails)

Procs == {1, 2}

Idle == [pc |-> "idle"]

Fits(d) == Len(d.evt) + Len(d.prt) + Len(d.rt) <= MaxRows

Store(d) ==
    /\ users' = d.users
    /\ evt' = d.evt
    /\ prt' = d.prt
    /\ rt' = d.rt
    /\ outbox' = d.outbox

\* One request handled from start to end: the database becomes the handler's.
Handle(r) ==
    /\ Fits(r.db)
    /\ Store(r.db)
    /\ UNCHANGED <<now, reqs, accepted, emailService>>

\* The same for a handler that consumes a secret.
HandleSecret(token, r) ==
    /\ Fits(r.db)
    /\ Store(r.db)
    /\ accepted' = IF r.status = "ok" THEN accepted \cup {token} ELSE accepted
    /\ UNCHANGED <<now, reqs, emailService>>

\* EmailService before its first getTransporter: the SMTP settings are present
\* or not, this.transporter is undefined.
Unconnected(configured) == [config |-> configured, transporter |-> "undefined"]

Init ==
    /\ users = <<>>
    /\ evt = <<>>
    /\ prt = <<>>
    /\ rt = <<>>
    /\ outbox = {}
    /\ now = 0
    /\ reqs = [p \in Procs |-> Idle]
    /\ accepted = {}
    /\ emailService = Unconnected(TRUE)

\* The Notification Gateway delivers.
Register ==
    \E email \in Emails, password \in Passwords :
        Handle(register(DB, email, password, TRUE, now))

RegisterAdmin ==
    \E email \in Emails, password \in Passwords :
        Handle(registerAdmin(DB, email, password, now))

Login ==
    \E email \in RequestEmails, password \in Passwords :
        Handle(login(DB, email, password, now))

VerifyEmail ==
    \E token \in Secrets : HandleSecret(token, verifyEmail(DB, token, now))

ResendVerification ==
    \E email \in RequestEmails : Handle(resendVerification(DB, email, TRUE, now))

ForgotPassword ==
    \E email \in RequestEmails : Handle(forgotPassword(DB, email, TRUE, now))

ResetPassword ==
    \E token \in Secrets, newPassword \in Passwords :
        HandleSecret(token, resetPassword(DB, token, newPassword, now))

ChangePassword ==
    \E userId \in UserIds, currentPassword \in Passwords, newPassword \in Passwords :
        Handle(changePassword(DB, userId, currentPassword, newPassword, now))

Refresh ==
    \E token \in RefreshCookies : Handle(refreshFromCookies(DB, token, now))

Logout ==
    \E token \in RefreshCookies : Handle(logoutFromCookies(DB, token, now))

\* The wall clock moves on between two requests.
Tick ==
    /\ now < MaxTime
    /\ now' = now + 1
    /\ UNCHANGED <<users, evt, prt, rt, outbox, reqs, accepted, emailService>>

Next ==
    \/ Register
    \/ RegisterAdmin
    \/ Login
    \/ VerifyEmail
    \/ ResendVerification
    \/ ForgotPassword
    \/ ResetPassword
    \/ Logout
    \/ ChangePassword
    \/ Refresh
    \/ Tick

\* Requests handled one after the other, from the empty database.
Spec == Init /\ [][Next]_vars

\* The requests that read or write users and refresh tokens, handled one
\* after the other.  resendVerification and forgotPassword write neither, and
\* what resetPassword writes to them (the password hash, and revokedAt on the
\* user's unrevoked rows) changePassword writes too.
SessionNext ==
    \/ Register
    \/ RegisterAdmin
    \/ Login
    \/ VerifyEmail
    \/ Logout
    \/ ChangePassword
    \/ Refresh
    \/ Tick

SpecSession == Init /\ [][SessionNext]_vars

\* The Notification Gateway fails: sendVerificationEmail throws.
RegisterUndelivered ==
    \E email \in Emails, password \in Passwords :
        Handle(register(DB, email, password, FALSE, now))

ResendUndelivered ==
    \E email \in RequestEmails : Handle(resendVerification(DB, email, FALSE, now))

\* The verification secrets a client can hold: those of the links that were
\* delivered, and one that was never issued.
MailedSecrets ==
    {mail.secret : mail \in {m \in outbox : m.kind = "evt"}} \cup {rawSecret("evt", 0)}

VerifyMailed ==
    \E token \in MailedSecrets : HandleSecret(token, verifyEmail(DB, token, now))

\* Registration and verification with a gateway that may fail, handled one
\* request after the other: a secret reaches the client only in a delivered mail.
DeliveryNext ==
    \/ Register
    \/ RegisterUndelivered
    \/ ResendVerification
    \/ ResendUndelivered
    \/ VerifyMailed
    \/ Login
    \/ Tick

SpecDelivery == Init /\ [][DeliveryNext]_vars

\* ---------------------------------------------------------------- C1
\* The users for whom a verifyEmail call has succeeded.
VerifiedOk ==
    {evt[s[2]].userId : s \in {a \in accepted : a[1] = "evt"}}

ExistingUsers == 1..Len(users)

\* C1: a user created by register cannot log in, whatever the password, as long
\* as no verifyEmail has succeeded for that user; once one has, login with the
\* user's email and password succeeds and returns an access token and a
\* refresh token of that user and the user's id, email and role USER, and the
\* refresh token's row is in the ledger.
C1_LoginGatedByVerification ==
    \A u \in ExistingUsers : \A password \in Passwords :
        LET r == login(DB, users[u].email, password, now)
        IN users[u].role = "USER" =>
            IF u \notin VerifiedOk
            THEN r.status = "Unauthorized" /\ r.db = DB
            ELSE bcryptCompare(password, users[u].password) =>
                    /\ r.status = "ok"
                    /\ r.body.user = [id |-> u, email |-> users[u].email, role |-> "USER"]
                    /\ r.body.access_token.type = "access"
                    /\ r.body.access_token.sub = u
                    /\ r.body.refresh_token.type = "refresh"
                    /\ r.body.refresh_token.sub = u
                    /\ r.db.rt = Append(rt, newRefreshRow(DB, u, r.body.refresh_token, now))

\* A registered user has verified with the secret register mailed and has
\* logged in: the user's refresh token is in the ledger.
C1_Witness ==
    \E u \in ExistingUsers :
        /\ users[u].role = "USER"
        /\ u \in VerifiedOk
        /\ rawSecret("evt", 1) \in accepted
        /\ \E i \in 1..Len(rt) : rt[i].userId = u /\ rt[i].revokedAt = Null

\* ---------------------------------------------------------------- C2
\* The rows refresh has rotated: revoked with a replacement.
Rotated == {i \in 1..Len(rt) : rt[i].replacedById # Null}

RowsOf(table, userId) == {i \in 1..Len(table) : table[i].userId = userId}

\* Presenting again a refresh token that refresh has rotated fails and leaves
\* every row of its user revoked, so that refresh then fails for each of them:
\* the replacement, the later tokens of the chain and the tokens of other logins.
C2_ReplayRevokesAll ==
    \A i \in Rotated :
        LET r == refreshFromCookies(DB, jwtOfRow(rt[i]), now)
        IN /\ r.status = "Unauthorized"
           /\ \A j \in RowsOf(r.db.rt, rt[i].userId) :
                /\ r.db.rt[j].revokedAt # Null
                /\ refreshFromCookies(r.db, jwtOfRow(r.db.rt[j]), now).status
                       = "Unauthorized"

\* A refresh token whose row is revoked is refused.
C2_RevokedIsRefused ==
    \A i \in 1..Len(rt) :
        rt[i].revokedAt # Null =>
            refreshFromCookies(DB, jwtOfRow(rt[i]), now).status = "Unauthorized"

\* No step takes a revocation back or removes a row.
C2_StaysRevoked ==
    /\ Len(rt') >= Len(rt)
    /\ \A i \in 1..Len(rt) : rt[i].revokedAt # Null => rt'[i].revokedAt # Null

\* C2: once refresh(rt0) has succeeded, presenting rt0 again fails Unauthorized
\* and revokes every refresh token of the user, and from then on refresh fails
\* for each of them: in every state the replay would do so, a revoked token is
\* refused, and a revoked row stays revoked.
C2_ReuseDetection ==
    /\ [](C2_ReplayRevokesAll /\ C2_RevokedIsRefused)
    /\ [][C2_StaysRevoked]_vars

\* rt0 was rotated into rt1, a second login of the user gave rt_other, and all
\* three were revoked at once.
C2_Witness ==
    \E i \in Rotated : \E j \in RowsOf(rt, rt[i].userId) :
        LET k == rt[i].replacedById
        IN /\ j \notin {i, k}
           /\ rt[j].replacedById = Null
           /\ \A h \in Rotated : rt[h].replacedById # j
           /\ rt[k].revokedAt # Null
           /\ rt[k].replacedById = Null
           /\ rt[j].revokedAt = rt[k].revokedAt
           /\ rt[i].revokedAt < rt[k].revokedAt

\* ---------------------------------------------------------------- C4
\* After the password handler's reply r for the user, the new hash is stored,
\* every row the user had is revoked and refresh is refused for its token.
SessionsRevoked(r, userId, newPassword) ==
    /\ r.db.users[userId].password = bcryptHash(newPassword)
    /\ Len(r.db.rt) = Len(rt)
    /\ \A i \in RowsOf(rt, userId) :
        /\ r.db.rt[i].revokedAt # Null
        /\ refreshFromCookies(r.db, jwtOfRow(rt[i]), now).status = "Unauthorized"

\* C4: when changePassword or resetPassword succeeds for a user, every refresh
\* token the user had before the call is revoked with the new password hash,
\* and refresh fails Unauthorized for it.
C4_PasswordChangeRevokesSessions ==
    /\ \A userId \in UserIds, currentPassword \in Passwords, newPassword \in Passwords :
        LET r == changePassword(DB, userId, currentPassword, newPassword, now)
        IN r.status = "ok" => SessionsRevoked(r, userId, newPassword)
    /\ \A token \in Secrets, newPassword \in Passwords :
        LET r == resetPassword(DB, token, newPassword, now)
        IN r.status = "ok" => SessionsRevoked(r, prt[token[2]].userId, newPassword)

\* resetPassword has taken a secret of a user who had a session: the row was
\* revoked, unexpired, when the secret was used, and refresh refuses its token.
C4_Witness ==
    \E s \in accepted :
        /\ s[1] = "prt"
        /\ \E i \in RowsOf(rt, prt[s[2]].userId) :
            /\ rt[i].revokedAt = prt[s[2]].usedAt
            /\ rt[i].replacedById = Null
            /\ verifyAsync(jwtOfRow(rt[i]), rt[i].revokedAt)
            /\ refreshFromCookies(DB, jwtOfRow(rt[i]), now).status = "Unauthorized"

\* ---------------------------------------------------------------- C5
\* The secrets that were issued, and the row of one.
Issued == {s \in Secrets : s[2] # 0}

TableOf(s) == IF s[1] = "evt" THEN evt ELSE prt

RowOf(s) == TableOf(s)[s[2]]

Unexpired(s) == ~(RowOf(s).expiresAt < now)

\* A later token of the same kind was issued to the same user.
Superseded(s) == \E j \in RowsOf(TableOf(s), RowOf(s).userId) : j > s[2]

\* The handler a secret is meant for, and the other one.
Consume(d, s, password, t) ==
    IF s[1] = "evt" THEN verifyEmail(d, s, t) ELSE resetPassword(d, s, password, t)

Misuse(d, s, password, t) ==
    IF s[1] = "evt" THEN resetPassword(d, s, password, t) ELSE verifyEmail(d, s, t)

Refused(r, d) == r.status = "Unauthorized" /\ r.db = d

\* C5 as stated: every issued and unexpired secret that was never accepted is
\* accepted by the first verifyEmail / resetPassword that presents it.
C5_IssuedUnexpiredIsAccepted ==
    \A s \in Issued, password \in Passwords :
        (Unexpired(s) /\ s \notin accepted) => Consume(DB, s, password, now).status = "ok"

\* C5, amended: an issued and unexpired secret that no later issuance of the
\* same kind to the same user has superseded is accepted exactly once: the
\* first verifyEmail / resetPassword presenting it succeeds, and every later
\* one fails Unauthorized and changes no state; a superseded secret is refused
\* from its first presentation on.
C5_AcceptedExactlyOnce ==
    \A s \in Issued, password \in Passwords :
        LET first == Consume(DB, s, password, now)
        IN /\ (Unexpired(s) /\ ~Superseded(s) /\ s \notin accepted)
              => /\ first.status = "ok"
                 /\ \A later \in Passwords, t \in now..MaxTime :
                       /\ Refused(Consume(first.db, s, later, t), first.db)
                       /\ Refused(Misuse(first.db, s, later, t), first.db)
           /\ (s \in accepted \/ Superseded(s))
              => /\ Refused(first, DB)
                 /\ Refused(Misuse(DB, s, password, now), DB)

\* A reset secret was accepted and is still unexpired, and another secret is
\* unexpired, was never accepted and is superseded.
C5_Witness ==
    /\ \E s \in accepted : s[1] = "prt" /\ Unexpired(s)
    /\ \E s \in Issued \ accepted : Unexpired(s) /\ Superseded(s)

\* ---------------------------------------------------------------- C7
Success(d) == Reply(d, "ok", [kind |-> "success"], "kept")

NoUser(email) == getUserByEmail(DB, email) = 0

Verified(email) == ~NoUser(email) /\ users[getUserByEmail(DB, email)].isEmailVerified

\* C7: resendVerification for an email without a user or of a verified user,
\* and forgotPassword for an email without a user, return success and leave
\* users, token rows and the sent mail as they were, whether or not the
\* Notification Gateway works.
C7_NoOpSuccess ==
    \A email \in RequestEmails, delivers \in BOOLEAN :
        /\ (NoUser(email) \/ Verified(email))
           => resendVerification(DB, email, delivers, now) = Success(DB)
        /\ NoUser(email) => forgotPassword(DB, email, delivers, now) = Success(DB)

\* A verified user whom the rate limit would let pass, beside an email of no user.
C7_Witness ==
    /\ \E email \in Emails :
        /\ Verified(email)
        /\ enforceVerificationRateLimit(DB, getUserByEmail(DB, email), now) = "pass"
        /\ resendVerification(DB, email, TRUE, now).db = DB
    /\ \E email \in RequestEmails :
        NoUser(email) /\ forgotPassword(DB, email, TRUE, now).db = DB

\* ---------------------------------------------------------------- C8
\* C8: every resendVerification and forgotPassword call returns success, so
\* the caller sees the same outcome for the email of a user and for an email
\* of nobody.
C8_NonEnumerating ==
    \A email \in RequestEmails, other \in RequestEmails :
        /\ resendVerification(DB, email, TRUE, now).status = "ok"
        /\ forgotPassword(DB, email, TRUE, now).status = "ok"
        /\ resendVerification(DB, email, TRUE, now).body
              = resendVerification(DB, other, TRUE, now).body
        /\ forgotPassword(DB, email, TRUE, now).body
              = forgotPassword(DB, other, TRUE, now).body

\* ---------------------------------------------------------------- C9
BelowDailyCap(userId) ==
    dailyCount(evt, userId, now - DayMs) < verificationDailyLimit

\* C9: for an unverified user below the daily cap whose last verification
\* token was issued at time t, with a working gateway: resendVerification
\* before t + cooldown fails TooManyRequests and issues no token, and at or
\* after t + cooldown it succeeds and issues one.
C9_ResendCooldown ==
    \A email \in Emails :
        LET userId == getUserByEmail(DB, email)
            t == latestCreatedAt(evt, userId)
            r == resendVerification(DB, email, TRUE, now)
        IN (~NoUser(email) /\ ~Verified(email) /\ BelowDailyCap(userId) /\ t # Null)
           => IF now < t + verificationCooldownSeconds
              THEN r.status = "TooManyRequests" /\ r.db = DB
              ELSE /\ r.status = "ok"
                   /\ Len(r.db.evt) = Len(evt) + 1
                   /\ r.db.evt[Len(r.db.evt)].createdAt = now
                   /\ resendVerification(r.db, email, TRUE, now).status = "TooManyRequests"

\* A resendVerification succeeded once the cooldown after the registration had
\* passed, and the next one, inside the new cooldown and below the daily cap,
\* is refused.
C9_Witness ==
    \E email \in Emails :
        LET userId == getUserByEmail(DB, email)
        IN /\ ~NoUser(email) /\ ~Verified(email) /\ BelowDailyCap(userId)
           /\ Cardinality(RowsOf(evt, userId)) = 2
           /\ latestCreatedAt(evt, userId) = now
           /\ \E i \in RowsOf(evt, userId) :
                 evt[i].createdAt + verificationCooldownSeconds <= now
           /\ resendVerification(DB, email, TRUE, now).status = "TooManyRequests"

\* ---------------------------------------------------------------- C10
Expired(row) == row.expiresAt < now

\* C10: a token whose row has expiresAt before the current time is refused:
\* verifyEmail and resetPassword fail Unauthorized for it, used or not, and
\* refresh fails Unauthorized for it, revoked or not, also when the checks on
\* the row are reached with a token whose signature and lifetime verify.
C10_ExpiredIsRefused ==
    /\ \A i \in 1..Len(evt) :
          Expired(evt[i]) => verifyEmail(DB, rawSecret("evt", i), now).status = "Unauthorized"
    /\ \A i \in 1..Len(prt), password \in Passwords :
          Expired(prt[i])
          => resetPassword(DB, rawSecret("prt", i), password, now).status = "Unauthorized"
    /\ \A i \in 1..Len(rt) :
          Expired(rt[i])
          => /\ refreshFromCookies(DB, jwtOfRow(rt[i]), now).status = "Unauthorized"
             /\ refreshDecide(DB, jwtOfRow(rt[i]), refreshRead(DB, jwtOfRow(rt[i])), now).status
                   = "Unauthorized"

\* An unused reset token and an unrevoked refresh token, both expired.
C10_Witness ==
    /\ \E i \in 1..Len(prt) : Expired(prt[i]) /\ prt[i].usedAt = Null
    /\ \E i \in 1..Len(rt) : Expired(rt[i]) /\ rt[i].revokedAt = Null

\* ---------------------------------------------------------------- C11
\* The user's unrevoked rows get revokedAt = t, every other row stays.
RevokedFor(table, userId, t) ==
    [i \in 1..Len(table) |->
        IF table[i].userId = userId /\ table[i].revokedAt = Null
        THEN [table[i] EXCEPT !.revokedAt = t] ELSE table[i]]

\* The database after a logout that names the subject.
LoggedOut(userId) == [DB EXCEPT !.rt = RevokedFor(rt, userId, now)]

\* C11: logout returns success and clears both cookies for an absent, an
\* undecodable, an unsigned, an expired and a valid refresh cookie; when the
\* token names a subject every unrevoked refresh token of that subject is
\* revoked and nothing else changes, so that every refresh token issued to
\* that user before fails refresh from then on; without a subject nothing
\* changes.
C11_LogoutAlwaysSucceeds ==
    /\ \A token \in RefreshCookies \cup {Garbage} :
          LET r == logoutFromCookies(DB, token, now)
          IN /\ r.status = "ok"
             /\ r.body = [kind |-> "success"]
             /\ r.cookies = "cleared"
             /\ r.db = IF token.sub = Null THEN DB ELSE LoggedOut(token.sub)
    /\ \A earlier \in IssuedRefreshTokens, t \in now..MaxTime :
          refreshFromCookies(LoggedOut(earlier.sub), earlier, t).status = "Unauthorized"

\* A user holds an expired refresh token and one that refresh accepts; logout
\* with the expired one makes refresh refuse the other.
C11_Witness ==
    \E i \in 1..Len(rt), j \in 1..Len(rt) :
        /\ rt[i].userId = rt[j].userId
        /\ ~verifyAsync(jwtOfRow(rt[i]), now)
        /\ refreshFromCookies(DB, jwtOfRow(rt[j]), now).status = "ok"
        /\ refreshFromCookies(logoutFromCookies(DB, jwtOfRow(rt[i]), now).db,
                              jwtOfRow(rt[j]), now).status = "Unauthorized"

\* ---------------------------------------------------------------- C12
\* The access tokens signed so far: one beside every refresh token row.
IssuedAccessTokens ==
    {signAccessToken(DB, rt[i].userId, rt[i].createdAt) : i \in 1..Len(rt)}

\* A token the server's key signs for a subject that has no user row.
OrphanAccessToken ==
    [type |-> "access", sub |-> Len(users) + 1, email |-> "ghost@x.com", role |-> "USER",
     jti |-> Null, iat |-> now, exp |-> now + jwtExpiresIn(accessTokenTTL), sig |-> "valid"]

AccessCookies ==
    IssuedAccessTokens \cup {forged(token) : token \in IssuedAccessTokens}
        \cup IssuedRefreshTokens \cup {OrphanAccessToken, NoToken, Garbage}

\* C12: validate returns valid with the id, email and role of the user, and
\* keeps the cookies, exactly when the token's signature is valid, it is
\* unexpired, its type is access and its subject is an existing user; for
\* every other token and for none it fails Unauthorized and clears the
\* cookies; it writes nothing.
C12_ValidateIff ==
    \A token \in AccessCookies :
        LET r == validateFromCookies(DB, token, now)
            good == /\ token.sig = "valid"
                    /\ now < token.exp
                    /\ token.type = "access"
                    /\ token.sub \in 1..Len(users)
        IN IF good
           THEN r = [db |-> DB, status |-> "ok", cookies |-> "kept",
                     body |-> [kind |-> "valid",
                               user |-> [id |-> token.sub,
                                         email |-> users[token.sub].email,
                                         role |-> users[token.sub].role]]]
           ELSE r = [db |-> DB, status |-> "Unauthorized", cookies |-> "cleared",
                     body |-> NoBody]

\* One issued access token is accepted, another has expired and is refused,
\* and an unexpired refresh token is refused for its type.
C12_Witness ==
    /\ \E token \in IssuedAccessTokens : validateFromCookies(DB, token, now).status = "ok"
    /\ \E token \in IssuedAccessTokens :
          ~(now < token.exp) /\ validateFromCookies(DB, token, now).status = "Unauthorized"
    /\ \E token \in IssuedRefreshTokens :
          verifyAsync(token, now) /\ validateFromCookies(DB, token, now).status = "Unauthorized"

\* ---------------------------------------------------------------- C13
\* C13: a user created by registerAdmin logs in with the registered password
\* whether or not a verifyEmail was performed for that user.
C13_AdminLoginUngated ==
    \A userId \in ExistingUsers, password \in Passwords :
        (users[userId].role = "ADMIN" /\ bcryptCompare(password, users[userId].password))
        => login(DB, users[userId].email, password, now).status = "ok"

\* ---------------------------------------------------------------- C14
\* C14: register with the email of an existing user fails with Conflict and
\* leaves users, token rows and the sent mail as they were, whatever the
\* password and whether or not the Notification Gateway works.
C14_RegisterConflict ==
    \A email \in Emails, password \in Passwords, delivers \in BOOLEAN :
        ~NoUser(email)
        => register(DB, email, password, delivers, now)
              = [db |-> DB, status |-> "Conflict", body |-> NoBody, cookies |-> "kept"]

\* The email belongs to an unverified user with an unused verification token
\* whom the rate limit would let pass, and register answers Conflict.
C14_Witness ==
    \E email \in Emails :
        LET userId == getUserByEmail(DB, email)
        IN /\ userId # 0
           /\ ~users[userId].isEmailVerified
           /\ \E i \in RowsOf(evt, userId) : evt[i].usedAt = Null
           /\ enforceVerificationRateLimit(DB, userId, now) = "pass"
           /\ register(DB, email, "Other456!", TRUE, now).status = "Conflict"

\* ---------------------------------------------------------------- C15
\* The rows that row i replaced, and the first row of the chain of row i.
ReplacedBy(i) == {j \in 1..Len(rt) : rt[j].replacedById = rt[i].id}

RECURSIVE ChainRoot(_)
ChainRoot(i) ==
    IF ReplacedBy(i) = {} \/ i \in ReplacedBy(i) THEN i ELSE ChainRoot(Min(ReplacedBy(i)))

ActiveRow(i) == rt[i].revokedAt = Null /\ ~(rt[i].expiresAt < now)

ActiveInChain(root) == {i \in 1..Len(rt) : ChainRoot(i) = root /\ ActiveRow(i)}

\* C15: with requests handled one after the other, every rotation chain (the
\* row a login or registerAdmin inserted and the rows reached from it through
\* replacedById) holds at most one unrevoked and unexpired refresh token.
C15_OneActivePerChain ==
    \A i \in 1..Len(rt) : Cardinality(ActiveInChain(ChainRoot(i))) <= 1

\* A chain whose first token was rotated and whose latest is active, beside
\* another chain of the same user that is active too.
C15_Witness ==
    \E i \in 1..Len(rt), j \in 1..Len(rt), k \in 1..Len(rt) :
        /\ rt[i].replacedById = rt[j].id
        /\ ActiveRow(j)
        /\ ChainRoot(k) # ChainRoot(j)
        /\ rt[k].userId = rt[j].userId
        /\ ActiveRow(k)

\* ---------------------------------------------------------------- C16
\* Tokens of type refresh that carry the server's signature: the issued ones,
\* for each a second token with the same jti and other bytes, and for each
\* user one whose jti has no row.
Resigned(token) == [token EXCEPT !.iat = @ + 1, !.exp = @ + 1]

UnknownJti(userId) ==
    [type |-> "refresh", sub |-> userId, email |-> "", role |-> "",
     jti |-> Len(rt) + 1, iat |-> now,
     exp |-> now + jwtExpiresIn(refreshTokenTTL), sig |-> "valid"]

SignedRefreshTokens ==
    IssuedRefreshTokens \cup {Resigned(token) : token \in IssuedRefreshTokens}
        \cup {UnknownJti(userId) : userId \in ExistingUsers}

\* C16: for a token of type refresh of an existing user that verifies, refresh
\* is the checks on the ledger row.  When the row is absent, revoked, stores
\* another hash than the token's or is expired, they fail Unauthorized, clear
\* the cookies, insert no row and revoke every unrevoked refresh token of the
\* user, changing nothing else; when none of the four holds they rotate: the
\* row is revoked and linked to the one new row, which is active.
C16_RefreshRowChecks ==
    \A token \in SignedRefreshTokens :
        LET read == refreshRead(DB, token)
            row == read.rt
            bad == \/ row = <<>>
                   \/ row[1].revokedAt # Null
                   \/ row[1].tokenHash # hashToken(token)
                   \/ row[1].expiresAt < now
            r == refreshDecide(DB, token, read, now)
            new == Len(rt) + 1
        IN /\ verifyAsync(token, now) => refreshFromCookies(DB, token, now) = r
           /\ IF bad
              THEN /\ r.status = "Unauthorized"
                   /\ r.cookies = "cleared"
                   /\ r.db = [DB EXCEPT !.rt = RevokedFor(rt, token.sub, now)]
              ELSE /\ r.status = "ok"
                   /\ r.cookies = "set"
                   /\ Len(r.db.rt) = new
                   /\ r.db.rt[new].revokedAt = Null
                   /\ r.db.rt[new].userId = token.sub
                   /\ \A i \in 1..Len(rt) :
                         r.db.rt[i] = IF rt[i].jti = token.jti
                                      THEN [rt[i] EXCEPT !.revokedAt = now,
                                                         !.replacedById = new]
                                      ELSE rt[i]
                   /\ [r.db EXCEPT !.rt = rt] = DB

\* One user holds a token that verifies and whose row is revoked, an
\* unrevoked row that is expired, and a token that refresh rotates.
C16_Witness ==
    \E i \in 1..Len(rt), j \in 1..Len(rt), k \in 1..Len(rt) :
        /\ rt[i].userId = rt[k].userId /\ rt[j].userId = rt[k].userId
        /\ rt[i].revokedAt # Null /\ verifyAsync(jwtOfRow(rt[i]), now)
        /\ rt[j].revokedAt = Null /\ rt[j].expiresAt < now
        /\ refreshFromCookies(DB, jwtOfRow(rt[k]), now).status = "ok"

\* ---------------------------------------------------------------- C17
\* A token with a bad signature that names another subject than the owner of
\* the row of its jti.
Misattributed(token) == [forged(token) EXCEPT !.sub = @ + 1]

\* What a client can present that verifyAsync rejects.
UnverifiedCookies ==
    {token \in SignedRefreshTokens \cup IssuedAccessTokens : ~verifyAsync(token, now)}
        \cup {forged(token) : token \in SignedRefreshTokens \cup IssuedAccessTokens}
        \cup {Misattributed(token) : token \in IssuedRefreshTokens}
        \cup {Garbage}

\* C17: for a token that fails the verification of its signature or expiry,
\* refresh fails Unauthorized and clears the cookies; when the token yields a
\* jti and a row has it, exactly the unrevoked refresh tokens of the owner of
\* that row are revoked; when it yields no jti or no row has it, the database
\* is unchanged.
C17_UnverifiedRefresh ==
    \A token \in UnverifiedCookies :
        LET r == refreshFromCookies(DB, token, now)
            rows == {i \in 1..Len(rt) : token.jti # Null /\ rt[i].jti = token.jti}
        IN /\ r.status = "Unauthorized"
           /\ r.cookies = "cleared"
           /\ IF rows = {} THEN r.db = DB
              ELSE \A i \in rows :
                      r.db = [DB EXCEPT !.rt = RevokedFor(rt, rt[i].userId, now)]

\* An issued token has expired, and presenting it revokes another, active
\* token of the same owner.
C17_Witness ==
    \E i \in 1..Len(rt), j \in 1..Len(rt) :
        /\ i # j
        /\ rt[i].userId = rt[j].userId
        /\ ~verifyAsync(jwtOfRow(rt[i]), now)
        /\ ActiveRow(j)
        /\ refreshFromCookies(DB, jwtOfRow(rt[i]), now).db.rt[j].revokedAt = now

\* ------------------------------------------------- overlapping requests
\* Two requests, each handled one awaited statement at a time.  They start
\* from the database reached by register, verifyEmail, login and
\* forgotPassword at time 0 (a verified user with one session and one
\* outstanding reset secret), or from the one reached by register alone (an
\* unverified user with one outstanding verification secret).
RaceDBFresh ==
    register([users |-> <<>>, evt |-> <<>>, prt |-> <<>>, rt |-> <<>>, outbox |-> {}],
             "a@x.com", "Secret123!", TRUE, 0).db

RaceDB ==
    LET d0 == [users |-> <<>>, evt |-> <<>>, prt |-> <<>>, rt |-> <<>>, outbox |-> {}]
        d1 == register(d0, "a@x.com", "Secret123!", TRUE, 0).db
        d2 == verifyEmail(d1, rawSecret("evt", 1), 0).db
        d3 == login(d2, "a@x.com", "Secret123!", 0).db
    IN forgotPassword(d3, "a@x.com", TRUE, 0).db

\* The overlapping requests arrive at once, or after the cooldowns have passed.
RaceStart == {0, resetCooldownSeconds}

RaceInit ==
    /\ \E d \in {RaceDB, RaceDBFresh} :
        /\ users = d.users
        /\ evt = d.evt
        /\ prt = d.prt
        /\ rt = d.rt
        /\ outbox = d.outbox
        /\ accepted = {s \in {rawSecret("evt", 1)} : d.users[1].isEmailVerified}
    /\ now \in RaceStart
    /\ reqs = [p \in Procs |-> Idle]
    /\ emailService = Unconnected(TRUE)

\* Whether the token's row is unrevoked and unexpired.
Active(d, token, t) ==
    LET i == getRefreshTokenByJti(d, token.jti)
    IN i # 0 /\ d.rt[i].revokedAt = Null /\ ~(d.rt[i].expiresAt < t)

\* await verifyAsync(token), for a token that passes
RefreshBegin(p) ==
    /\ reqs[p].pc = "idle"
    /\ \E token \in IssuedRefreshTokens :
        /\ refreshVerify(DB, token, now).status = "pass"
        /\ reqs' = [reqs EXCEPT ![p] =
                      [pc |-> "readRt", op |-> "refresh", token |-> token,
                       active |-> Active(DB, token, now),
                       read |-> [rt |-> <<>>, user |-> <<>>]]]
    /\ UNCHANGED <<users, evt, prt, rt, outbox, now, accepted, emailService>>

\* await getRefreshTokenByJti(payload.jti)
RefreshReadRt(p) ==
    /\ reqs[p].pc = "readRt"
    /\ reqs' = [reqs EXCEPT ![p].pc = "readUser",
                            ![p].read.rt = refreshRead(DB, reqs[p].token).rt]
    /\ UNCHANGED <<users, evt, prt, rt, outbox, now, accepted, emailService>>

\* await getUserById(payload.sub)
RefreshReadUser(p) ==
    /\ reqs[p].pc = "readUser"
    /\ reqs' = [reqs EXCEPT ![p].pc = "decide",
                            ![p].read.user = refreshRead(DB, reqs[p].token).user]
    /\ UNCHANGED <<users, evt, prt, rt, outbox, now, accepted, emailService>>

\* The checks on the rows read, then the one write: the revocation of the
\* user's rows, or the transaction that rotates.
RefreshFinish(p) ==
    /\ reqs[p].pc = "decide"
    /\ LET r == refreshDecide(DB, reqs[p].token, reqs[p].read, now)
       IN /\ Len(r.db.rt) <= MaxRows
          /\ Store(r.db)
          /\ reqs' = [reqs EXCEPT ![p] =
                        [pc |-> "done", op |-> "refresh", token |-> reqs[p].token,
                         active |-> reqs[p].active, status |-> r.status]]
    /\ UNCHANGED <<now, accepted, emailService>>

\* await getPasswordResetTokenByHash(tokenHash)
ResetRead(p) ==
    /\ reqs[p].pc = "idle"
    /\ \E token \in Secrets, newPassword \in Passwords :
        reqs' = [reqs EXCEPT ![p] =
                    [pc |-> "reset", op |-> "resetPassword", token |-> token,
                     newPassword |-> newPassword, read |-> resetRead(DB, token)]]
    /\ UNCHANGED <<users, evt, prt, rt, outbox, now, accepted, emailService>>

\* The checks on the row read, then the transaction.
ResetFinish(p) ==
    /\ reqs[p].pc = "reset"
    /\ LET r == resetDecide(DB, reqs[p].token, reqs[p].newPassword, reqs[p].read, now)
       IN /\ Store(r.db)
          /\ accepted' = IF r.status = "ok" THEN accepted \cup {reqs[p].token}
                         ELSE accepted
          /\ reqs' = [reqs EXCEPT ![p] =
                        [pc |-> "done", op |-> "resetPassword", token |-> reqs[p].token,
                         newPassword |-> reqs[p].newPassword, status |-> r.status]]
    /\ UNCHANGED <<now, emailService>>

\* await getEmailVerificationTokenByHash(tokenHash)
VerifyRead(p) ==
    /\ reqs[p].pc = "idle"
    /\ \E token \in Secrets :
        reqs' = [reqs EXCEPT ![p] =
                    [pc |-> "verify", op |-> "verifyEmail", token |-> token,
                     read |-> verifyRead(DB, token)]]
    /\ UNCHANGED <<users, evt, prt, rt, outbox, now, accepted, emailService>>

\* The checks on the row read, then the transaction.
VerifyFinish(p) ==
    /\ reqs[p].pc = "verify"
    /\ LET r == verifyDecide(DB, reqs[p].token, reqs[p].read, now)
       IN /\ Store(r.db)
          /\ accepted' = IF r.status = "ok" THEN accepted \cup {reqs[p].token}
                         ELSE accepted
          /\ reqs' = [reqs EXCEPT ![p] =
                        [pc |-> "done", op |-> "verifyEmail", token |-> reqs[p].token,
                         status |-> r.status]]
    /\ UNCHANGED <<now, emailService>>

\* await getUserById(userId)
ChangeRead(p) ==
    /\ reqs[p].pc = "idle"
    /\ \E userId \in UserIds, currentPassword \in Passwords, newPassword \in Passwords :
        reqs' = [reqs EXCEPT ![p] =
                    [pc |-> "change", op |-> "changePassword", userId |-> userId,
                     currentPassword |-> currentPassword, newPassword |-> newPassword,
                     read |-> changeRead(DB, userId)]]
    /\ UNCHANGED <<users, evt, prt, rt, outbox, now, accepted, emailService>>

\* The comparison with the hash read, then the transaction.
ChangeFinish(p) ==
    /\ reqs[p].pc = "change"
    /\ LET r == changeDecide(DB, reqs[p].userId, reqs[p].currentPassword,
                             reqs[p].newPassword, reqs[p].read, now)
       IN /\ Store(r.db)
          /\ reqs' = [reqs EXCEPT ![p] =
                        [pc |-> "done", op |-> "changePassword", userId |-> reqs[p].userId,
                         newPassword |-> reqs[p].newPassword, status |-> r.status]]
    /\ UNCHANGED <<now, accepted, emailService>>

Answer(p, op, status) ==
    reqs' = [reqs EXCEPT ![p] = [pc |-> "done", op |-> op, status |-> status]]

\* await getUserByEmail(email)
ForgotUser(p) ==
    /\ reqs[p].pc = "idle"
    /\ \E email \in RequestEmails :
        LET userId == getUserByEmail(DB, email)
        IN IF userId = 0 THEN Answer(p, "forgotPassword", "ok")
           ELSE reqs' = [reqs EXCEPT ![p] =
                           [pc |-> "forgotLatest", op |-> "forgotPassword",
                            email |-> email, userId |-> userId]]
    /\ UNCHANGED <<users, evt, prt, rt, outbox, now, accepted, emailService>>

\* await getLatestPasswordResetToken(userId), and the cooldown
ForgotLatest(p) ==
    /\ reqs[p].pc = "forgotLatest"
    /\ LET lastAt == latestCreatedAt(prt, reqs[p].userId)
       IN IF lastAt # Null /\ now - lastAt < resetCooldownSeconds
          THEN Answer(p, "forgotPassword", "TooManyRequests")
          ELSE reqs' = [reqs EXCEPT ![p].pc = "forgotCount"]
    /\ UNCHANGED <<users, evt, prt, rt, outbox, now, accepted, emailService>>

\* await the count of the rows of the last 24 hours, and the daily cap
ForgotCount(p) ==
    /\ reqs[p].pc = "forgotCount"
    /\ IF dailyCount(prt, reqs[p].userId, now - DayMs) >= resetDailyLimit
       THEN Answer(p, "forgotPassword", "TooManyRequests")
       ELSE reqs' = [reqs EXCEPT ![p].pc = "forgotInvalidate"]
    /\ UNCHANGED <<users, evt, prt, rt, outbox, now, accepted, emailService>>

\* await UPDATE ... SET usedAt WHERE userId AND usedAt IS NULL
ForgotInvalidate(p) ==
    /\ reqs[p].pc = "forgotInvalidate"
    /\ prt' = invalidateUnused(prt, reqs[p].userId, now)
    /\ reqs' = [reqs EXCEPT ![p].pc = "forgotInsert"]
    /\ UNCHANGED <<users, evt, rt, outbox, now, accepted, emailService>>

\* await INSERT of the new token
ForgotInsert(p) ==
    /\ reqs[p].pc = "forgotInsert"
    /\ Len(prt) < MaxRows
    /\ prt' = Append(prt, newToken(prt, "prt", reqs[p].userId, passwordResetTTL, now))
    /\ reqs' = [reqs EXCEPT ![p] =
                  [pc |-> "forgotSend", op |-> "forgotPassword",
                   email |-> reqs[p].email, userId |-> reqs[p].userId,
                   secret |-> rawSecret("prt", Len(prt) + 1)]]
    /\ UNCHANGED <<users, evt, rt, outbox, now, accepted, emailService>>

\* await sendPasswordResetEmail(email, link)
ForgotSend(p) ==
    /\ reqs[p].pc = "forgotSend"
    /\ outbox' = outbox \cup {[to |-> reqs[p].email, kind |-> "prt",
                                secret |-> reqs[p].secret]}
    /\ Answer(p, "forgotPassword", "ok")
    /\ UNCHANGED <<users, evt, prt, rt, now, accepted, emailService>>

\* The process that handles the request stops between two awaited statements.
Crash(p) ==
    /\ reqs[p].pc \notin {"idle", "done", "crashed"}
    /\ reqs' = [reqs EXCEPT ![p].pc = "crashed"]
    /\ UNCHANGED <<users, evt, prt, rt, outbox, now, accepted, emailService>>

RaceNext ==
    \E p \in Procs :
        \/ RefreshBegin(p)
        \/ RefreshReadRt(p)
        \/ RefreshReadUser(p)
        \/ RefreshFinish(p)
        \/ ResetRead(p)
        \/ ResetFinish(p)
        \/ VerifyRead(p)
        \/ VerifyFinish(p)
        \/ ChangeRead(p)
        \/ ChangeFinish(p)
        \/ ForgotUser(p)
        \/ ForgotLatest(p)
        \/ ForgotCount(p)
        \/ ForgotInvalidate(p)
        \/ ForgotInsert(p)
        \/ ForgotSend(p)
        \/ Crash(p)

SpecRace == RaceInit /\ [][RaceNext]_vars

Done(p, op) == reqs[p].pc = "done" /\ reqs[p].op = op

\* ---------------------------------------------------------------- C3
\* C3: of two overlapping refresh calls that present the same active token at
\* most one rotates it; the other fails Unauthorized and, treated as reuse,
\* leaves every refresh token of the user revoked.
C3_OneRotationPerToken ==
    \A p \in Procs : \A q \in Procs \ {p} :
        (/\ Done(p, "refresh") /\ Done(q, "refresh")
         /\ reqs[p].token = reqs[q].token
         /\ reqs[p].active /\ reqs[q].active
         /\ reqs[p].status = "ok")
        => /\ reqs[q].status = "Unauthorized"
           /\ \A i \in RowsOf(rt, reqs[p].token.sub) : rt[i].revokedAt # Null

\* ---------------------------------------------------------------- C6
\* C6: of two overlapping resetPassword calls that present the same secret at
\* most one succeeds.
C6_ResetSecretSingleUse ==
    \A p \in Procs : \A q \in Procs \ {p} :
        (/\ Done(p, "resetPassword") /\ Done(q, "resetPassword")
         /\ reqs[p].token = reqs[q].token)
        => ~(reqs[p].status = "ok" /\ reqs[q].status = "ok")

\* ---------------------------------------------------------------- C18
\* Every row that was replaced is revoked and names a row of the same user.
C18_ReplacedIsRevoked ==
    \A i \in 1..Len(rt) :
        rt[i].replacedById # Null
        => /\ rt[i].revokedAt # Null
           /\ \E j \in 1..Len(rt) :
                 rt[j].id = rt[i].replacedById /\ rt[j].userId = rt[i].userId

\* A step inserts a refresh row exactly when it links a row to a replacement,
\* and then it is the end of a refresh that succeeds: one row is inserted, and
\* the row of the presented jti is revoked and names the inserted row.
C18_RotationStep ==
    LET inserted == Len(rt') # Len(rt)
        linked == \E i \in 1..Len(rt) :
                      i <= Len(rt') /\ rt'[i].replacedById # rt[i].replacedById
    IN (inserted \/ linked)
       => \E p \in Procs :
             /\ reqs[p].pc = "decide"
             /\ reqs'[p].pc = "done"
             /\ reqs'[p].status = "ok"
             /\ Len(rt') = Len(rt) + 1
             /\ \E i \in 1..Len(rt) :
                   /\ rt[i].jti = reqs[p].token.jti
                   /\ rt'[i].revokedAt # Null
                   /\ rt'[i].replacedById = rt'[Len(rt')].id

\* C18: rotation is all or nothing, also when requests overlap and when a
\* request stops between two awaited statements: in every state every row with
\* replacedById set is revoked and names an existing row of the same user, and
\* no step inserts a rotation's row without revoking and linking the rotated
\* row, or the reverse.
C18_RotationAtomic ==
    /\ []C18_ReplacedIsRevoked
    /\ [][C18_RotationStep]_vars

\* One refresh has rotated the first token while the other request, a refresh
\* that had read the row before, stopped before its transaction.
C18_Witness ==
    \E p \in Procs, q \in Procs :
        /\ Done(p, "refresh") /\ reqs[p].status = "ok"
        /\ reqs[q].pc = "crashed" /\ reqs[q].op = "refresh"
        /\ reqs[q].read.rt # <<>>
        /\ Len(rt) = 2
        /\ rt[1].replacedById = rt[2].id

\* ---------------------------------------------------------------- C19
\* Request p ends with success in this step.
Succeeds(p, pc) ==
    reqs[p].pc = pc /\ reqs'[p].pc = "done" /\ reqs'[p].status = "ok"

\* A verification secret was accepted exactly when its owner is verified, and
\* every accepted secret is marked used.
C19_GuardWithEffect ==
    /\ \A s \in accepted : TableOf(s)[s[2]].usedAt # Null
    /\ \A s \in accepted : s[1] = "evt" => users[evt[s[2]].userId].isEmailVerified
    /\ \A userId \in ExistingUsers :
          users[userId].isEmailVerified
          => \E s \in accepted : s[1] = "evt" /\ evt[s[2]].userId = userId

\* A verifyEmail that succeeds leaves the token used and the owner verified; a
\* resetPassword that succeeds leaves the new hash stored, the token used and
\* every refresh token of the user revoked; a changePassword that succeeds
\* leaves the new hash stored and every refresh token of the user revoked; no
\* other step writes a user row or a verification token.
C19_WritesTogether ==
    /\ \A p \in Procs :
          Succeeds(p, "verify")
          => LET row == reqs[p].read[1]
             IN /\ users'[row.userId].isEmailVerified
                /\ evt'[row.id].usedAt # Null
    /\ \A p \in Procs :
          Succeeds(p, "reset")
          => LET row == reqs[p].read[1]
             IN /\ users'[row.userId].password = bcryptHash(reqs[p].newPassword)
                /\ prt'[row.id].usedAt # Null
                /\ \A i \in RowsOf(rt', row.userId) : rt'[i].revokedAt # Null
    /\ \A p \in Procs :
          Succeeds(p, "change")
          => /\ users'[reqs[p].userId].password = bcryptHash(reqs[p].newPassword)
             /\ \A i \in RowsOf(rt', reqs[p].userId) : rt'[i].revokedAt # Null
    /\ users' # users
       => \E p \in Procs :
             Succeeds(p, "verify") \/ Succeeds(p, "reset") \/ Succeeds(p, "change")
    /\ evt' # evt => \E p \in Procs : Succeeds(p, "verify")

\* C19: the guard token and its effect are applied together, also when
\* requests overlap and when a request stops between two awaited statements:
\* no state has an accepted verification token with an unverified owner or
\* the reverse, and the writes of verifyEmail and the three writes of
\* resetPassword happen in one step or not at all.
C19_GuardAndEffectTogether ==
    /\ []C19_GuardWithEffect
    /\ [][C19_WritesTogether]_vars

\* A resetPassword succeeded and revoked the session while the other request,
\* a resetPassword that had read the token unused, stopped before its
\* transaction.
C19_Witness ==
    \E p \in Procs, q \in Procs :
        /\ Done(p, "resetPassword") /\ reqs[p].status = "ok"
        /\ reqs[q].pc = "crashed" /\ reqs[q].op = "resetPassword"
        /\ reqs[q].read # <<>> /\ reqs[q].read[1].usedAt = Null
        /\ \E i \in 1..Len(rt) : rt[i].revokedAt # Null

\* ---------------------------------------------------------------- C20
ValidTokens(table, userId) ==
    {i \in RowsOf(table, userId) : table[i].usedAt = Null /\ ~(table[i].expiresAt < now)}

\* C20: however the calls that issue tokens interleave, a user has at most one
\* unused and unexpired verification token and at most one unused and
\* unexpired reset token.
C20_OneValidTokenPerKind ==
    \A userId \in ExistingUsers :
        /\ Cardinality(ValidTokens(evt, userId)) <= 1
        /\ Cardinality(ValidTokens(prt, userId)) <= 1

\* ---------------------------------------------------------------- C21
\* The user whose password request p has changed.
PasswordUser(p) ==
    IF reqs[p].op = "changePassword" THEN reqs[p].userId ELSE prt[reqs[p].token[2]].userId

\* C21: however a changePassword or resetPassword of a user interleaves with
\* the user's refresh calls, once the password request has succeeded the user
\* has no unrevoked and unexpired refresh token (no request logs in here).
C21_PasswordChangeForcesRelogin ==
    \A p \in Procs :
        ((Done(p, "changePassword") \/ Done(p, "resetPassword")) /\ reqs[p].status = "ok")
        => \A i \in RowsOf(rt, PasswordUser(p)) : ~ActiveRow(i)

\* ---------------------------------------------------------------- C22
\* C22: at every instant, overlapping requests included, the verification
\* tokens created for a user in the trailing 24 hours are at most the
\* verification daily limit, and the reset tokens at most the reset daily limit.
C22_DailyCapHolds ==
    \A userId \in ExistingUsers :
        /\ dailyCount(evt, userId, now - DayMs) <= verificationDailyLimit
        /\ dailyCount(prt, userId, now - DayMs) <= resetDailyLimit

\* ---------------------------------------------------------------- C23
\* The verification secrets that were delivered to the email.
DeliveredTo(email) ==
    {mail.secret : mail \in {m \in outbox : m.kind = "evt" /\ m.to = email}}

\* register with a failing gateway: the gateway's error, and the user row and
\* the token row stay while no mail was sent.
C23_FailedRegisterCommits ==
    \A email \in Emails, password \in Passwords :
        NoUser(email)
        => LET r == register(DB, email, password, FALSE, now)
               userId == Len(users) + 1
           IN /\ r.status = "Error"
              /\ r.db.users = Append(users, [id |-> userId, email |-> email,
                                             password |-> bcryptHash(password),
                                             role |-> "USER", isEmailVerified |-> FALSE])
              /\ Len(r.db.evt) = Len(evt) + 1
              /\ r.db.evt[Len(r.db.evt)].userId = userId
              /\ r.db.evt[Len(r.db.evt)].usedAt = Null
              /\ r.db.outbox = outbox
              /\ r.db.rt = rt /\ r.db.prt = prt
              /\ \A other \in Passwords, delivers \in BOOLEAN, t \in now..MaxTime :
                    /\ register(r.db, email, other, delivers, t)
                          = Reply(r.db, "Conflict", NoBody, "kept")
                    /\ login(r.db, email, other, t).status = "Unauthorized"

\* A registered user is locked out exactly as long as no delivered secret was
\* verified, and a resendVerification that delivers opens the way.
C23_LockedUntilDelivered ==
    \A userId \in ExistingUsers :
        LET email == users[userId].email
            resent == resendVerification(DB, email, TRUE, now)
            secret == rawSecret("evt", Len(resent.db.evt))
            verified == verifyEmail(resent.db, secret, now)
        IN /\ \A password \in Passwords :
                 register(DB, email, password, TRUE, now).status = "Conflict"
           /\ IF DeliveredTo(email) \cap accepted = {}
              THEN /\ ~users[userId].isEmailVerified
                   /\ \A password \in Passwords :
                         login(DB, email, password, now).status = "Unauthorized"
                   /\ enforceVerificationRateLimit(DB, userId, now) = "pass"
                      => /\ resent.status = "ok"
                         /\ secret \notin DeliveredTo(email)
                         /\ [to |-> email, kind |-> "evt", secret |-> secret]
                               \in resent.db.outbox
                         /\ verified.status = "ok"
                         /\ \E password \in Passwords :
                               login(verified.db, email, password, now).status = "ok"
              ELSE \E password \in Passwords :
                      login(DB, email, password, now).status = "ok"

\* C23: when the Notification Gateway fails while register sends the
\* verification mail, register fails with the gateway's error and the user
\* row and the token row it created stay committed; a repeated register with
\* the email fails Conflict, and login fails Unauthorized until a
\* resendVerification has delivered a secret and verifyEmail has taken it.
C23_UndeliveredRegistration ==
    C23_FailedRegisterCommits /\ C23_LockedUntilDelivered

\* The mail of the registration was never delivered; a later resendVerification
\* delivered a secret, verifyEmail took it and the user has logged in.
C23_Witness ==
    \E userId \in ExistingUsers :
        LET first == Min(RowsOf(evt, userId))
        IN /\ rawSecret("evt", first) \notin DeliveredTo(users[userId].email)
           /\ \E s \in accepted \cap DeliveredTo(users[userId].email) : s[2] > first
           /\ RowsOf(rt, userId) # {}

\* ---------------------------------------------------------------- C24
\* Tokens that carry the server's signature and are no refresh tokens: the
\* access tokens, and for every refresh token one that is typed access, one
\* without a jti and one without a subject.
NotRefreshCookies ==
    IssuedAccessTokens
        \cup {[token EXCEPT !.type = "access"] : token \in IssuedRefreshTokens}
        \cup {[token EXCEPT !.jti = Null] : token \in IssuedRefreshTokens}
        \cup {[token EXCEPT !.sub = Null] : token \in IssuedRefreshTokens}

\* C24: a token that verifies and whose type is not refresh, or that lacks a
\* subject or a jti, presented to refresh fails Unauthorized, clears the
\* cookies and changes no row; a refresh token that verifies presented to
\* validate fails Unauthorized and changes no row.
C24_TypesNotInterchangeable ==
    /\ \A token \in NotRefreshCookies :
          verifyAsync(token, now)
          => refreshFromCookies(DB, token, now) = Reply(DB, "Unauthorized", NoBody, "cleared")
    /\ \A token \in IssuedRefreshTokens :
          verifyAsync(token, now)
          => LET r == validateFromCookies(DB, token, now)
             IN r.status = "Unauthorized" /\ r.db = DB

\* A user holds an access token that verifies beside a refresh token that
\* refresh would rotate, and refresh refuses the access token.
C24_Witness ==
    \E i \in 1..Len(rt) :
        LET access == signAccessToken(DB, rt[i].userId, rt[i].createdAt)
        IN /\ access \in NotRefreshCookies
           /\ verifyAsync(access, now)
           /\ refreshFromCookies(DB, jwtOfRow(rt[i]), now).status = "ok"
           /\ refreshFromCookies(DB, access, now).status = "Unauthorized"
           /\ validateFromCookies(DB, jwtOfRow(rt[i]), now).status = "Unauthorized"

\* ------------------------------------------------- the Notification Gateway
\* EmailService alone: two sendMail calls, each handled one awaited statement
\* at a time, on a service whose SMTP settings are present or missing.
MailerInit ==
    /\ users = <<>>
    /\ evt = <<>>
    /\ prt = <<>>
    /\ rt = <<>>
    /\ outbox = {}
    /\ now = 0
    /\ reqs = [p \in Procs |-> Idle]
    /\ accepted = {}
    /\ emailService \in {Unconnected(configured) : configured \in BOOLEAN}

\* The mails sendVerificationEmail and sendPasswordResetEmail are asked to send.
Mails ==
    {[to |-> to, kind |-> kind, secret |-> rawSecret(kind, 1)] :
        to \in RequestEmails, kind \in {"evt", "prt"}}

\* sendMail calls getTransporter, which runs up to its first await: it returns
\* the transporter field when it is set, throws when the settings are
\* missing, and otherwise assigns the created transporter to the field and
\* awaits its verify().
GetTransporter(p) ==
    /\ reqs[p].pc = "idle"
    /\ \E mail \in Mails :
        IF emailService.transporter # "undefined"
        THEN /\ reqs' = [reqs EXCEPT ![p] =
                           [pc |-> "send", op |-> "sendMail", mail |-> mail,
                            transporter |-> emailService.transporter]]
             /\ UNCHANGED emailService
        ELSE IF ~emailService.config
        THEN Answer(p, "sendMail", "Error") /\ UNCHANGED emailService
        ELSE /\ emailService' = [emailService EXCEPT !.transporter = "pending"]
             /\ reqs' = [reqs EXCEPT ![p] =
                           [pc |-> "verify", op |-> "sendMail", mail |-> mail]]
    /\ UNCHANGED <<users, evt, prt, rt, outbox, now, accepted>>

\* await this.transporter.verify(): it resolves and the transporter is
\* returned, or it rejects and the error is thrown on; the field stays set.
VerifyTransporter(p) ==
    /\ reqs[p].pc = "verify"
    /\ \E resolves \in BOOLEAN :
        IF resolves
        THEN /\ emailService' = [emailService EXCEPT !.transporter = "verified"]
             /\ reqs' = [reqs EXCEPT ![p] =
                           [pc |-> "send", op |-> "sendMail", mail |-> reqs[p].mail,
                            transporter |-> "verified"]]
        ELSE /\ emailService' = [emailService EXCEPT !.transporter = "failed"]
             /\ Answer(p, "sendMail", "Error")
    /\ UNCHANGED <<users, evt, prt, rt, outbox, now, accepted>>

\* await transporter.sendMail(..): the mail is delivered, or the call rejects.
TransportMail(p) ==
    /\ reqs[p].pc = "send"
    /\ \E delivered \in BOOLEAN :
        /\ outbox' = IF delivered THEN outbox \cup {reqs[p].mail} ELSE outbox
        /\ reqs' = [reqs EXCEPT ![p] =
                      [pc |-> "done", op |-> "sendMail", mail |-> reqs[p].mail,
                       transporter |-> reqs[p].transporter,
                       status |-> IF delivered THEN "ok" ELSE "Error"]]
    /\ UNCHANGED <<users, evt, prt, rt, now, accepted, emailService>>

MailerNext ==
    \E p \in Procs :
        \/ GetTransporter(p)
        \/ VerifyTransporter(p)
        \/ TransportMail(p)

SpecMailer == MailerInit /\ [][MailerNext]_vars

\* ---------------------------------------------------------------- C25
\* C25: every transporter getTransporter has returned to a sendMail call was
\* verified when it was returned: its verify() had completed and had not failed.
C25_OnlyVerifiedTransporter ==
    \A p \in Procs :
        "transporter" \in DOMAIN reqs[p] => reqs[p].transporter = "verified"

\* ---------------------------------------------------------------- C26
\* A step keeps every row of the four tables in its place and takes back no
\* verification, no use of a token and no revocation.
C26_Step ==
    /\ Len(users') >= Len(users)
    /\ Len(evt') >= Len(evt)
    /\ Len(prt') >= Len(prt)
    /\ Len(rt') >= Len(rt)
    /\ \A i \in 1..Len(users) :
          /\ users'[i].id = users[i].id
          /\ users'[i].email = users[i].email
          /\ users[i].isEmailVerified => users'[i].isEmailVerified
    /\ \A i \in 1..Len(evt) :
          /\ evt'[i].tokenHash = evt[i].tokenHash
          /\ evt[i].usedAt # Null => evt'[i].usedAt # Null
    /\ \A i \in 1..Len(prt) :
          /\ prt'[i].tokenHash = prt[i].tokenHash
          /\ prt[i].usedAt # Null => prt'[i].usedAt # Null
    /\ \A i \in 1..Len(rt) :
          /\ rt'[i].jti = rt[i].jti
          /\ rt[i].revokedAt # Null => rt'[i].revokedAt # Null

\* C26: over any sequence of operations a revoked refresh token never becomes
\* unrevoked, a used verification or reset token never becomes unused, a
\* verified user never becomes unverified, and no user or token row is deleted.
C26_ForwardOnly == [][C26_Step]_vars

\* A verified user with a used verification token, a used reset token and a
\* revoked refresh token has logged in again later.
C26_Witness ==
    \E u \in ExistingUsers :
        /\ users[u].isEmailVerified
        /\ \E i \in RowsOf(evt, u) : evt[i].usedAt # Null
        /\ \E i \in RowsOf(prt, u) : prt[i].usedAt # Null
        /\ \E i \in RowsOf(rt, u), j \in RowsOf(rt, u) :
              /\ rt[i].revokedAt # Null
              /\ rt[j].createdAt > rt[i].revokedAt
              /\ rt[j].revokedAt = Null

\* ---------------------------------------------------------------- C27
\* C27: in every reachable state every refresh token row belongs to a user
\* who is verified or has the role ADMIN: no sequence of requests gives an
\* unverified user of role USER a refresh token.
C27_SessionsOnlyForVerified ==
    \A i \in 1..Len(rt) :
        /\ rt[i].userId \in ExistingUsers
        /\ users[rt[i].userId].isEmailVerified \/ users[rt[i].userId].role = "ADMIN"

\* A user of role USER has verified and holds a refresh token that a login
\* issued after the verification and a refresh has rotated.
C27_Witness ==
    \E i \in 1..Len(rt), j \in 1..Len(rt) :
        LET u == rt[i].userId
        IN /\ users[u].role = "USER"
           /\ \E k \in RowsOf(evt, u) : evt[k].usedAt # Null /\ evt[k].usedAt <= rt[i].createdAt
           /\ rt[i].replacedById = rt[j].id
           /\ rt[j].revokedAt = Null

\* ---------------------------------------------------------------- C28
\* validate answers for the access token on database d as it does now.
StillValid(d, access) ==
    LET v == validateFromCookies(d, access, now)
    IN /\ v.status = "ok"
       /\ v.body = validateFromCookies(DB, access, now).body
       /\ v.cookies = "kept"

\* C28: an access token of an existing user that verifies is accepted by
\* validate after a logout, after a refresh that fails and revokes, after a
\* changePassword and after a resetPassword, as it was before: the answer of
\* validate does not depend on the refresh token ledger.
C28_RevocationKeepsAccessTokens ==
    \A access \in IssuedAccessTokens :
        validateFromCookies(DB, access, now).status = "ok"
        => /\ \A token \in RefreshCookies :
                 /\ StillValid(logoutFromCookies(DB, token, now).db, access)
                 /\ LET r == refreshFromCookies(DB, token, now)
                    IN r.status = "Unauthorized" => StillValid(r.db, access)
           /\ \A userId \in UserIds, currentPassword \in Passwords, newPassword \in Passwords :
                 StillValid(changePassword(DB, userId, currentPassword, newPassword, now).db,
                            access)
           /\ \A token \in Secrets, newPassword \in Passwords :
                 StillValid(resetPassword(DB, token, newPassword, now).db, access)
           /\ StillValid([DB EXCEPT !.rt = <<>>], access)

\* Every refresh token of a user is revoked, by a resetPassword that has
\* succeeded, and validate accepts the user's access token.
C28_Witness ==
    \E access \in IssuedAccessTokens :
        /\ validateFromCookies(DB, access, now).status = "ok"
        /\ \A i \in RowsOf(rt, access.sub) : rt[i].revokedAt # Null
        /\ \E s \in accepted : s[1] = "prt" /\ prt[s[2]].userId = access.sub

\* ---------------------------------------------------------------- C29
\* The token register issued to the user: the first of the user's rows.
RegisterToken(userId) == Min(RowsOf(evt, userId))

\* The user's later tokens created in the trailing 24 hours.
ResendsInDay(userId) ==
    {i \in RowsOf(evt, userId) \ {RegisterToken(userId)} : evt[i].createdAt >= now - DayMs}

\* C29: the verification token register issues counts towards the rate limit
\* of resendVerification.  A first resendVerification less than the cooldown
\* after register fails TooManyRequests and issues no token; and for every
\* daily limit, as long as the register token lies in the trailing 24 hours
\* it is one of the tokens compared with the limit: the rate limit refuses
\* when the later tokens of the day and the register token reach the limit.
C29_RegisterTokenCounts ==
    \A userId \in ExistingUsers :
        LET email == users[userId].email
            first == RegisterToken(userId)
            r == resendVerification(DB, email, TRUE, now)
        IN ~users[userId].isEmailVerified
           => /\ RowsOf(evt, userId) # {}
              /\ (RowsOf(evt, userId) = {first}
                   /\ now < evt[first].createdAt + verificationCooldownSeconds)
                 => r.status = "TooManyRequests" /\ r.db = DB
              /\ \A limit \in 1..verificationDailyLimit :
                    (evt[first].createdAt >= now - DayMs
                     /\ Cardinality(ResendsInDay(userId)) + 1 >= limit)
                    => rateLimit(evt, userId, now, verificationCooldownSeconds, limit)
                          = "TooManyRequests"

\* The cooldown after the user's one resendVerification has passed, and the
\* register token is the one that takes the day's tokens to a limit of two.
C29_Witness ==
    \E userId \in ExistingUsers :
        LET first == RegisterToken(userId)
        IN /\ ~users[userId].isEmailVerified
           /\ evt[first].createdAt >= now - DayMs
           /\ Cardinality(ResendsInDay(userId)) = 1
           /\ now - latestCreatedAt(evt, userId) >= verificationCooldownSeconds
           /\ rateLimit(evt, userId, now, verificationCooldownSeconds, 2) = "TooManyRequests"

\* ------------------------------------------------- overlapping registrations
\* users.email is UNIQUE: an INSERT is accepted by the database only when no
\* row has the email.
emailIsFree_Unconstrained(d, email) == TRUE

emailIsFree(d, email) == getUserByEmail(d, email) = 0

\* await getUserByEmail(email), of register and of registerAdmin
RegisterRead(p) ==
    /\ reqs[p].pc = "idle"
    /\ \E op \in {"register", "registerAdmin"}, email \in Emails, password \in Passwords :
        IF getUserByEmail(DB, email) # 0
        THEN Answer(p, op, "Conflict")
        ELSE reqs' = [reqs EXCEPT ![p] =
                        [pc |-> "insertUser", op |-> op, email |-> email,
                         password |-> password]]
    /\ UNCHANGED <<users, evt, prt, rt, outbox, now, accepted, emailService>>

\* await INSERT INTO users: the row is inserted, or the database rejects it
\* for its email and the error is thrown on.
RegisterInsert(p) ==
    /\ reqs[p].pc = "insertUser"
    /\ IF ~emailIsFree(DB, reqs[p].email)
       THEN Answer(p, reqs[p].op, "Error") /\ UNCHANGED users
       ELSE /\ users' = Append(users, newUser(DB, reqs[p].email, reqs[p].password,
                                              IF reqs[p].op = "register" THEN "USER"
                                              ELSE "ADMIN"))
            /\ reqs' = [reqs EXCEPT ![p] =
                          [pc |-> IF reqs[p].op = "register" THEN "invalidate" ELSE "persist",
                           op |-> reqs[p].op, email |-> reqs[p].email,
                           userId |-> Len(users) + 1]]
    /\ UNCHANGED <<evt, prt, rt, outbox, now, accepted, emailService>>

\* issueAndSendEmailVerification: await UPDATE ... SET usedAt
RegisterInvalidate(p) ==
    /\ reqs[p].pc = "invalidate"
    /\ evt' = invalidateUnused(evt, reqs[p].userId, now)
    /\ reqs' = [reqs EXCEPT ![p].pc = "issue"]
    /\ UNCHANGED <<users, prt, rt, outbox, now, accepted, emailService>>

\* issueAndSendEmailVerification: await INSERT of the token
RegisterIssue(p) ==
    /\ reqs[p].pc = "issue"
    /\ evt' = Append(evt, newToken(evt, "evt", reqs[p].userId, verificationTokenTTL, now))
    /\ reqs' = [reqs EXCEPT ![p] =
                  [pc |-> "send", op |-> reqs[p].op, email |-> reqs[p].email,
                   userId |-> reqs[p].userId, secret |-> rawSecret("evt", Len(evt) + 1)]]
    /\ UNCHANGED <<users, prt, rt, outbox, now, accepted, emailService>>

\* issueAndSendEmailVerification: await sendVerificationEmail, which delivers or throws
RegisterSend(p) ==
    /\ reqs[p].pc = "send"
    /\ \E delivers \in BOOLEAN :
        /\ outbox' = IF delivers
                     THEN outbox \cup {[to |-> reqs[p].email, kind |-> "evt",
                                        secret |-> reqs[p].secret]}
                     ELSE outbox
        /\ reqs' = [reqs EXCEPT ![p] =
                      [pc |-> "done", op |-> reqs[p].op, userId |-> reqs[p].userId,
                       status |-> IF delivers THEN "ok" ELSE "Error"]]
    /\ UNCHANGED <<users, evt, prt, rt, now, accepted, emailService>>

\* registerAdmin: await INSERT INTO refresh_tokens
AdminPersist(p) ==
    /\ reqs[p].pc = "persist"
    /\ rt' = Append(rt, newRefreshRow(DB, reqs[p].userId,
                                      signRefreshToken(DB, reqs[p].userId, now), now))
    /\ reqs' = [reqs EXCEPT ![p] =
                  [pc |-> "done", op |-> reqs[p].op, userId |-> reqs[p].userId,
                   status |-> "ok"]]
    /\ UNCHANGED <<users, evt, prt, outbox, now, accepted, emailService>>

RegisterNext ==
    \E p \in Procs :
        \/ RegisterRead(p)
        \/ RegisterInsert(p)
        \/ RegisterInvalidate(p)
        \/ RegisterIssue(p)
        \/ RegisterSend(p)
        \/ AdminPersist(p)
        \/ Crash(p)

\* Two register / registerAdmin calls for one email on the empty database,
\* each handled one awaited statement at a time.
SpecRegister == Init /\ [][RegisterNext]_vars

\* ---------------------------------------------------------------- C30
\* The calls whose INSERT INTO users the database has accepted.
Inserted == {p \in Procs : "userId" \in DOMAIN reqs[p]}

\* At most one row has the email and at most one call has inserted it; only
\* a call that inserted succeeds; and every user row, token row and mail is
\* that call's.
C30_OneUserPerEmail ==
    /\ \A email \in Emails :
          Cardinality({i \in 1..Len(users) : users[i].email = email}) <= 1
    /\ Cardinality(Inserted) <= 1
    /\ Len(users) = Cardinality(Inserted)
    /\ \A p \in Procs : (reqs[p].pc = "done" /\ reqs[p].status = "ok") => p \in Inserted
    /\ \A p \in Procs : \A q \in Procs \ {p} :
          ~(/\ reqs[p].pc = "done" /\ reqs[p].status = "ok"
            /\ reqs[q].pc = "done" /\ reqs[q].status = "ok")
    /\ Len(evt) + Len(rt) <= Cardinality(Inserted)
    /\ Cardinality(outbox) <= Len(evt)
    /\ \A i \in 1..Len(evt) : \E p \in Inserted : evt[i].userId = reqs[p].userId
    /\ \A i \in 1..Len(rt) : \E p \in Inserted : rt[i].userId = reqs[p].userId

\* A call that ends without having inserted the user row has written nothing.
C30_LoserWritesNothing ==
    \A p \in Procs :
        (reqs[p].pc # "done" /\ reqs'[p].pc = "done" /\ p \notin Inserted)
        => UNCHANGED <<users, evt, prt, rt, outbox>>

====
